---------------------------- MODULE Spec2Model ----------------------------
(***************************************************************************)
(* A model of the extraction pipeline of the Doctify site mirror           *)
(* (src/pipelines/extract.py).                                             *)
(*                                                                         *)
(* Representation.  A Python str is a sequence of one-character strings.   *)
(* A Python value is a tagged record:                                      *)
(*     None      [t |-> "none"]                                            *)
(*     str       [t |-> "str",      s |-> <<chars>>]                       *)
(*     int       [t |-> "int",      n |-> Int]                             *)
(*     float     [t |-> "float",    k |-> "fin"|"inf"|"nan", n |-> Int]    *)
(*     bool      [t |-> "bool",     b |-> BOOLEAN]                         *)
(*     list      [t |-> "list",     l |-> <<values>>]                      *)
(*     datetime  [t |-> "datetime", d |-> <<chars>>]                       *)
(* The outcome of a call is [tag |-> "return", value |-> v] or             *)
(* [tag |-> "raise", exc |-> name].                                        *)
(***************************************************************************)
EXTENDS Integers, Sequences, FiniteSets, TLC

VARIABLES
    call,           \* the arguments of the function under examination
    ret,            \* its outcome, NoReturn until it has been applied
    mirror,         \* the corpus on disk: the pages mirrored
    format,         \* the output format the runs are given
    pc,             \* "ready", "loop" or "done": where process_directory is
    html_files,     \* process_directory: the files selected, in iteration order
    pos,            \* the index in html_files of the next file
    stats,          \* process_directory: the run's counters
    seen_slugs,     \* process_directory: the slugs issued in this run
    entity_files,   \* the lines written to each output file
    selector_hits,  \* DoctifyExtractor.selector_hits
    previous,       \* <<the (page_type, primary_key, slug) set of the run before>>
    jsonl_lines,    \* validate_file: the lines of the file, as json.loads sees them
    line_num,       \* validate_file: the number of the last line read
    file_stats,     \* validate_file: its stats
    seen_keys,      \* validate_file: the primary keys met so far
    scan            \* "scanning", "returned" or "raised": where validate_file is

extractVars == <<mirror, format, pc, html_files, pos, stats, seen_slugs, entity_files,
                 selector_hits, previous>>

scanVars == <<jsonl_lines, line_num, file_stats, seen_keys, scan>>

runVars == <<extractVars, scanVars>>

vars == <<call, ret, runVars>>

----------------------------------------------------------------------------
(* Bounds of the input domains.                                            *)

MaxLen == 3

MaxSegs == 3

MaxTypes == 2

MaxSelectors == 2

MaxFiles == 3

----------------------------------------------------------------------------
(* Python str primitives.                                                  *)

Digits == <<"0", "1", "2", "3", "4", "5", "6", "7", "8", "9">>

UpperChars == <<"A", "B", "C", "D", "E", "F", "G", "H", "I", "J", "K", "L", "M",
                "N", "O", "P", "Q", "R", "S", "T", "U", "V", "W", "X", "Y", "Z">>

LowerChars == <<"a", "b", "c", "d", "e", "f", "g", "h", "i", "j", "k", "l", "m",
                "n", "o", "p", "q", "r", "s", "t", "u", "v", "w", "x", "y", "z">>

IsDigit(c) == \E i \in 1..Len(Digits) : Digits[i] = c

DigitVal(c) == (CHOOSE i \in 1..Len(Digits) : Digits[i] = c) - 1

\* Characters outside ASCII are atoms named after the character.
IsSpace(c) == c \in {" ", "\t", "\n", "\r", "nbsp"}

LowerChar(c) ==
    IF \E i \in 1..Len(UpperChars) : UpperChars[i] = c
    THEN LowerChars[CHOOSE i \in 1..Len(UpperChars) : UpperChars[i] = c]
    ELSE c

\* str.lower()
Lower(s) == [i \in 1..Len(s) |-> LowerChar(s[i])]

\* str.replace(c, ''): every occurrence of the one-character string c removed
RECURSIVE RemoveChar(_, _)
RemoveChar(s, c) ==
    IF s = <<>> THEN <<>>
    ELSE IF Head(s) = c THEN RemoveChar(Tail(s), c)
    ELSE <<Head(s)>> \o RemoveChar(Tail(s), c)

RECURSIVE LStrip(_)
LStrip(s) == IF s # <<>> /\ IsSpace(Head(s)) THEN LStrip(Tail(s)) ELSE s

RECURSIVE RStrip(_)
RStrip(s) ==
    IF s # <<>> /\ IsSpace(s[Len(s)]) THEN RStrip(SubSeq(s, 1, Len(s) - 1)) ELSE s

\* str.strip()
Strip(s) == LStrip(RStrip(s))

AllDigits(s) == s # <<>> /\ \A i \in 1..Len(s) : IsDigit(s[i])

RECURSIVE DigitsToNat(_)
DigitsToNat(s) ==
    IF s = <<>> THEN 0
    ELSE 10 * DigitsToNat(SubSeq(s, 1, Len(s) - 1)) + DigitVal(s[Len(s)])

RECURSIVE NatToDigits(_)
NatToDigits(n) ==
    IF n < 10 THEN <<Digits[n + 1]>>
    ELSE NatToDigits(n \div 10) \o <<Digits[(n % 10) + 1]>>

\* all strings over a set of characters, of length at most n
StringsUpTo(chars, n) == UNION {[1..k -> chars] : k \in 0..n}

----------------------------------------------------------------------------
(* Python values.                                                          *)

None == [t |-> "none"]
Str(s) == [t |-> "str", s |-> s]
Int_(n) == [t |-> "int", n |-> n]
Float(n) == [t |-> "float", k |-> "fin", n |-> n]
FloatInf == [t |-> "float", k |-> "inf", n |-> 0]
FloatNaN == [t |-> "float", k |-> "nan", n |-> 0]
Bool(b) == [t |-> "bool", b |-> b]
List(l) == [t |-> "list", l |-> l]
DateTime(d) == [t |-> "datetime", d |-> d]
\* a str that is only ever compared as a whole (a page type, a key)
Name(id) == [t |-> "name", id |-> id]

Return(v) == [tag |-> "return", value |-> v]
Raise(e) == [tag |-> "raise", exc |-> e]
NoReturn == [tag |-> "none"]

\* a float that is not whole, held by its tenths (4.2 is Decimal(42))
Decimal(tenths) == [t |-> "float", k |-> "fin", tenths |-> tenths]
FloatNegInf == [t |-> "float", k |-> "-inf", n |-> 0]
\* a dict, as json.loads returns it
Dict(d) == [t |-> "dict", d |-> d]

\* ten times the value of a bool, an int or a finite float
Tenths(v) ==
    CASE v.t = "bool" -> (IF v.b THEN 10 ELSE 0)
      [] v.t = "int" -> 10 * v.n
      [] OTHER -> (IF "tenths" \in DOMAIN v THEN v.tenths ELSE 10 * v.n)

\* Python truthiness: bool(v)
Truthy(v) ==
    CASE v.t = "none" -> FALSE
      [] v.t = "str" -> v.s # <<>>
      [] v.t = "int" -> v.n # 0
      [] v.t = "float" -> ~(v.k = "fin" /\ Tenths(v) = 0)
      [] v.t = "bool" -> v.b
      [] v.t = "list" -> v.l # <<>>
      [] v.t = "dict" -> DOMAIN v.d # {}
      [] OTHER -> TRUE

\* no run of process_directory is under way: the state of the run while a
\* single function is examined
NoExtraction ==
    /\ mirror = <<>>
    /\ format = "jsonl"
    /\ pc = "idle"
    /\ html_files = <<>>
    /\ pos = 0
    /\ stats = <<>>
    /\ seen_slugs = {}
    /\ entity_files = <<>>
    /\ selector_hits = <<>>
    /\ previous = <<>>

\* no scan by validate_file is under way
NoScan ==
    /\ jsonl_lines = <<>>
    /\ line_num = 0
    /\ file_stats = <<>>
    /\ seen_keys = {}
    /\ scan = "idle"

NoRun == NoExtraction /\ NoScan

----------------------------------------------------------------------------
(* Library functions used by _convert_type.                                *)

\* float(str): surrounding whitespace and a sign are accepted, then decimal
\* digits or inf / infinity / nan in any case.  Fractions and exponents are
\* outside the modelled alphabet.
ParseFloat(s) ==
    LET body == Strip(s)
        unsigned == IF body # <<>> /\ Head(body) \in {"+", "-"} THEN Tail(body) ELSE body
        neg == body # <<>> /\ Head(body) = "-"
        low == Lower(unsigned)
    IN  IF AllDigits(unsigned)
        THEN Return(Float(IF neg THEN -DigitsToNat(unsigned) ELSE DigitsToNat(unsigned)))
        ELSE IF low \in {<<"i", "n", "f">>, <<"i", "n", "f", "i", "n", "i", "t", "y">>}
        THEN Return(FloatInf)
        ELSE IF low = <<"n", "a", "n">> THEN Return(FloatNaN)
        ELSE Raise("ValueError")

\* float(value)
PyFloat(v) ==
    CASE v.t = "str" -> ParseFloat(v.s)
      [] v.t = "int" -> Return(Float(v.n))
      [] v.t = "bool" -> Return(Float(IF v.b THEN 1 ELSE 0))
      [] v.t = "float" -> Return(v)
      [] OTHER -> Raise("TypeError")

\* int(<float>)
PyIntOfFloat(f) ==
    CASE f.k = "fin" -> Return(Int_(f.n))
      [] f.k = "inf" -> Raise("OverflowError")
      [] f.k = "nan" -> Raise("ValueError")

RECURSIVE ReplaceChar(_, _, _)
\* str.replace(c, r) for a one-character c
ReplaceChar(s, c, r) ==
    IF s = <<>> THEN <<>>
    ELSE (IF Head(s) = c THEN r ELSE <<Head(s)>>) \o ReplaceChar(Tail(s), c, r)

\* datetime.fromisoformat on the date-only form YYYY-MM-DD (the form every
\* supported interpreter accepts); anything else is a ValueError.
FromIsoFormat(s) ==
    LET shaped == /\ Len(s) = 10
                  /\ s[5] = "-" /\ s[8] = "-"
                  /\ \A i \in {1, 2, 3, 4, 6, 7, 9, 10} : IsDigit(s[i])
        year  == DigitsToNat(SubSeq(s, 1, 4))
        month == DigitsToNat(SubSeq(s, 6, 7))
        day   == DigitsToNat(SubSeq(s, 9, 10))
        leap  == (year % 4 = 0 /\ year % 100 # 0) \/ year % 400 = 0
        dim   == CASE month \in {4, 6, 9, 11} -> 30
                   [] month = 2 -> (IF leap THEN 29 ELSE 28)
                   [] OTHER -> 31
    IN  IF shaped /\ year >= 1 /\ month \in 1..12 /\ day \in 1..dim
        THEN Return(DateTime(s))
        ELSE Raise("ValueError")

RECURSIVE PyRepr(_)
\* repr(value), for the values str() is applied to
PyRepr(v) ==
    CASE v.t = "str" -> <<"'">> \o v.s \o <<"'">>
      [] v.t = "int" -> (IF v.n < 0 THEN <<"-">> \o NatToDigits(-v.n) ELSE NatToDigits(v.n))
      [] v.t = "bool" -> (IF v.b THEN <<"T", "r", "u", "e">> ELSE <<"F", "a", "l", "s", "e">>)
      [] v.t = "none" -> <<"N", "o", "n", "e">>
      [] v.t = "list" ->
            LET RECURSIVE Join(_)
                Join(l) == IF l = <<>> THEN <<>>
                           ELSE IF Len(l) = 1 THEN PyRepr(l[1])
                           ELSE PyRepr(l[1]) \o <<",", " ">> \o Join(Tail(l))
            IN  <<"[">> \o Join(v.l) \o <<"]">>
      [] v.t = "float" ->
            (CASE v.k = "inf" -> <<"i", "n", "f">>
               [] v.k = "nan" -> <<"n", "a", "n">>
               [] OTHER -> (IF v.n < 0 THEN <<"-">> \o NatToDigits(-v.n) ELSE NatToDigits(v.n))
                           \o <<".", "0">>)
      [] v.t = "datetime" -> v.d \o <<" ", "0", "0", ":", "0", "0", ":", "0", "0">>

\* str(value)
PyStr(v) == IF v.t = "str" THEN v.s ELSE PyRepr(v)

----------------------------------------------------------------------------
(* DoctifyExtractor._convert_type                                          *)

\* the except (ValueError, TypeError) clause: `value` is the binding of the
\* name at the time of the raise
CatchValueOrType(outcome, value) ==
    IF outcome.tag = "raise" /\ outcome.exc \in {"ValueError", "TypeError"}
    THEN Return(value)
    ELSE outcome

\* `value = value.replace(',', '')` guarded by isinstance(value, str)
StripCommas(value) == IF value.t = "str" THEN Str(RemoveChar(value.s, ",")) ELSE value

ConvertInteger(value) ==
    LET v == StripCommas(value)
        f == PyFloat(v)
    IN  CatchValueOrType(IF f.tag = "raise" THEN f ELSE PyIntOfFloat(f.value), v)

ConvertFloat(value) ==
    LET v == StripCommas(value)
    IN  CatchValueOrType(PyFloat(v), v)

ConvertBoolean(value) ==
    CASE value.t = "bool" -> Return(value)
      [] value.t = "str" ->
            Return(Bool(Lower(value.s) \in {<<"t", "r", "u", "e">>, <<"y", "e", "s">>, <<"1">>}))
      [] OTHER -> Return(Bool(Truthy(value)))

ConvertDate(value) ==
    IF value.t = "str"
    THEN LET parsed == FromIsoFormat(ReplaceChar(value.s, "Z", <<"+", "0", "0", ":", "0", "0">>))
         IN  IF parsed.tag = "return" THEN parsed ELSE Return(value)
    ELSE Return(value)

ConvertArray(value) ==
    IF value.t # "list"
    THEN Return(IF Truthy(value) THEN List(<<value>>) ELSE List(<<>>))
    ELSE Return(value)

_convert_type(value, target_type) ==
    IF value = None \/ value = Str(<<>>) THEN Return(None)
    ELSE CASE target_type = "integer" -> ConvertInteger(value)
           [] target_type = "float" -> ConvertFloat(value)
           [] target_type = "boolean" -> ConvertBoolean(value)
           [] target_type \in {"date", "datetime"} -> ConvertDate(value)
           [] target_type = "array" -> ConvertArray(value)
           [] target_type = "url" -> Return(Str(Strip(PyStr(value))))
           [] target_type = "email" -> Return(Str(Lower(Strip(PyStr(value)))))
           [] OTHER -> Return(value)

----------------------------------------------------------------------------
(* _convert_type applied to every value of a bounded domain.               *)

TargetTypes == {"string", "integer", "float", "boolean", "array", "object",
                "url", "email", "date", "datetime"}

ConvertChars == {"1", ",", "a", "n", "i", "f"}

SampleStrings == {
    <<"1", ",", "2", "3", "4">>,
    <<"a", "b", "c">>,
    <<"2", "0", "2", "3", "-", "0", "1", "-", "0", "2">>,
    <<"2", "0", "2", "3", "-", "1", "3", "-", "0", "2">>,
    <<" ", "Y", "e", "s", " ">>,
    <<"-", "1">> }

ConvertStrings == StringsUpTo(ConvertChars, MaxLen) \cup SampleStrings

ConvertValues ==
    {None} \cup {Str(s) : s \in ConvertStrings}
           \cup {Bool(TRUE), Bool(FALSE), Int_(0), Int_(7), Float(2), FloatInf,
                 List(<<>>), List(<<Str(<<"1">>)>>)}

InitConvertType ==
    /\ call \in [fn : {"_convert_type"}, value : ConvertValues, target_type : TargetTypes]
    /\ ret = NoReturn
    /\ NoRun

CallConvertType ==
    /\ call.fn = "_convert_type"
    /\ ret = NoReturn
    /\ ret' = _convert_type(call.value, call.target_type)
    /\ UNCHANGED <<call, runVars>>

NextConvertType == CallConvertType

SpecConvertType == InitConvertType /\ [][NextConvertType]_vars

\* the value could not be converted to the target type: the conversion the
\* target type calls for raised
Unconvertible(value, target_type) ==
    /\ value # None /\ value # Str(<<>>)
    /\ \/ /\ target_type = "integer"
          /\ LET f == PyFloat(StripCommas(value))
             IN  f.tag = "raise" \/ PyIntOfFloat(f.value).tag = "raise"
       \/ /\ target_type = "float"
          /\ PyFloat(StripCommas(value)).tag = "raise"

\* C8 (as claimed): _convert_type never raises, a value that cannot be
\* converted is returned exactly as it was given, and "1,234" as integer
\* gives 1234.
C8_NeverRaisesKeepsOriginal ==
    (call.fn = "_convert_type" /\ ret # NoReturn) =>
        /\ ret.tag = "return"
        /\ Unconvertible(call.value, call.target_type) => ret.value = call.value
        /\ (call.value = Str(<<"1", ",", "2", "3", "4">>) /\ call.target_type = "integer")
              => ret.value = Int_(1234)

----------------------------------------------------------------------------
(* Library functions used by _derive_slug and _slugify.                    *)

\* hashlib.sha1(s.encode("utf-8")).hexdigest()[:8], modelled symbolically: the
\* digest of s is the marker "#" followed by s, so equal inputs give equal
\* digests and different inputs different ones (the 2^-32 collisions of the
\* truncated digest are not modelled).
Sha1Hex8(s) == <<"#">> \o s

\* the index of the first character of s that is in chars, 0 when there is none
FindFirst(s, chars) ==
    IF \E i \in 1..Len(s) : s[i] \in chars
    THEN CHOOSE i \in 1..Len(s) : s[i] \in chars /\ \A j \in 1..(i - 1) : s[j] \notin chars
    ELSE 0

\* s up to, not including, its first character in chars
UpTo(s, chars) ==
    IF FindFirst(s, chars) = 0 THEN s ELSE SubSeq(s, 1, FindFirst(s, chars) - 1)

DropFirst(s, n) == SubSeq(s, n + 1, Len(s))

IsAlpha(c) == LowerChar(c) \in {LowerChars[i] : i \in 1..Len(LowerChars)}

\* a URL scheme: a letter, then letters, digits, "+", "-" or "."
IsScheme(s) ==
    /\ s # <<>>
    /\ IsAlpha(s[1])
    /\ \A i \in 1..Len(s) : IsAlpha(s[i]) \/ IsDigit(s[i]) \/ s[i] \in {"+", "-", "."}

\* urllib.parse.urlparse(url).path: the scheme and the "//"-introduced network
\* location are removed, then the fragment, the query and the parameters of
\* the last segment.
UrlPath(url) ==
    LET colon == FindFirst(url, {":"})
        afterScheme == IF colon > 0 /\ IsScheme(SubSeq(url, 1, colon - 1))
                       THEN DropFirst(url, colon) ELSE url
        afterNetloc == IF Len(afterScheme) >= 2 /\ SubSeq(afterScheme, 1, 2) = <<"/", "/">>
                       THEN LET rest == DropFirst(afterScheme, 2)
                            IN  DropFirst(rest, Len(UpTo(rest, {"/", "?", "#"})))
                       ELSE afterScheme
        noQuery == UpTo(afterNetloc, {"?", "#"})
        lastSlash == IF \E i \in 1..Len(noQuery) : noQuery[i] = "/"
                     THEN CHOOSE i \in 1..Len(noQuery) :
                              noQuery[i] = "/" /\ \A j \in (i + 1)..Len(noQuery) : noQuery[j] # "/"
                     ELSE 0
    IN  SubSeq(noQuery, 1, lastSlash) \o UpTo(DropFirst(noQuery, lastSlash), {";"})

RECURSIVE Split(_, _)
\* str.split(sep) for a one-character sep
Split(s, sep) ==
    IF FindFirst(s, {sep}) = 0 THEN <<s>>
    ELSE <<UpTo(s, {sep})>> \o Split(DropFirst(s, FindFirst(s, {sep})), sep)

RECURSIVE NonEmpty(_)
\* [s for s in seq if s]
NonEmpty(seq) ==
    IF seq = <<>> THEN <<>>
    ELSE (IF Head(seq) # <<>> THEN <<Head(seq)>> ELSE <<>>) \o NonEmpty(Tail(seq))

\* NFKD decomposition followed by encode("ascii", "ignore"): an accented
\* letter keeps its base letter, a no-break space becomes a space, any other
\* non-ASCII character disappears.
NfkdChars == <<"e_acute", "o_umlaut", "nbsp">>
NfkdAscii == <<"e", "o", " ">>
ZeroWidth == {"zwsp", "zwnj", "zwj", "bom"}
OtherNonAscii == {"em_dash"} \cup ZeroWidth

RECURSIVE AsciiFold(_)
AsciiFold(s) ==
    IF s = <<>> THEN <<>>
    ELSE (IF \E i \in 1..Len(NfkdChars) : NfkdChars[i] = Head(s)
          THEN <<NfkdAscii[CHOOSE i \in 1..Len(NfkdChars) : NfkdChars[i] = Head(s)]>>
          ELSE IF Head(s) \in OtherNonAscii THEN <<>>
          ELSE <<Head(s)>>) \o AsciiFold(Tail(s))

IsAsciiAlnum(c) == IsAlpha(c) \/ IsDigit(c)

RECURSIVE HyphenateRuns(_)
\* re.sub(r"[^a-zA-Z0-9]+", "-", s)
HyphenateRuns(s) ==
    IF s = <<>> THEN <<>>
    ELSE IF IsAsciiAlnum(Head(s)) THEN <<Head(s)>> \o HyphenateRuns(Tail(s))
    ELSE IF Len(s) >= 2 /\ ~IsAsciiAlnum(s[2]) THEN HyphenateRuns(Tail(s))
    ELSE <<"-">> \o HyphenateRuns(Tail(s))

RECURSIVE StripHyphens(_)
\* str.strip("-")
StripHyphens(s) ==
    IF s # <<>> /\ Head(s) = "-" THEN StripHyphens(Tail(s))
    ELSE IF s # <<>> /\ s[Len(s)] = "-" THEN StripHyphens(SubSeq(s, 1, Len(s) - 1))
    ELSE s

RECURSIVE CollapseHyphens(_)
\* re.sub(r"-{2,}", "-", s)
CollapseHyphens(s) ==
    IF s = <<>> THEN <<>>
    ELSE IF Len(s) >= 2 /\ s[1] = "-" /\ s[2] = "-" THEN CollapseHyphens(Tail(s))
    ELSE <<Head(s)>> \o CollapseHyphens(Tail(s))

----------------------------------------------------------------------------
(* DoctifyExtractor._slugify and DoctifyExtractor._derive_slug             *)

_slugify(text) == CollapseHyphens(Lower(StripHyphens(HyphenateRuns(AsciiFold(text)))))

NoiseWords == {<<"u", "k">>, <<"e", "n">>, <<"b", "l", "o", "g">>,
               <<"c", "a", "t", "e", "g", "o", "r", "y">>, <<"t", "a", "g">>,
               <<"p", "a", "g", "e">>}

\* DropFullMatch as it would be had the pattern been compiled without re.I
DropFullMatch_CaseSensitive(s) ==
    \/ s \in NoiseWords
    \/ AllDigits(s) /\ Len(s) \in {1, 2, 4}

\* drop.fullmatch(s) for drop = (uk|en|blog|category|tag|page|\d{1,2}|\d{4})$
\* compiled with re.I
DropFullMatch(s) ==
    \/ Lower(s) \in NoiseWords
    \/ AllDigits(s) /\ Len(s) \in {1, 2, 4}

\* re.fullmatch(r"\d{4}", s)
FourDigits(s) == AllDigits(s) /\ Len(s) = 4

RECURSIVE FilterNoise(_)
\* [s for s in segs if not drop.fullmatch(s)]
FilterNoise(segs) ==
    IF segs = <<>> THEN <<>>
    ELSE (IF DropFullMatch(Head(segs)) THEN <<>> ELSE <<Head(segs)>>) \o FilterNoise(Tail(segs))

\* `a or b` on values
Or(a, b) == IF Truthy(a) THEN a ELSE b

PostHash(canonical_url, title) ==
    <<"p", "o", "s", "t", "-">> \o Sha1Hex8(Or(canonical_url, Or(title, Str(<<"x">>))).s)

_derive_slug(canonical_url, title) ==
    LET path == UrlPath(Or(canonical_url, Str(<<>>)).s)
        segs == NonEmpty(Split(path, "/"))
        filtered == FilterNoise(segs)
        cand == Lower(filtered[Len(filtered)])
    IN  IF filtered # <<>> /\ ~FourDigits(cand) THEN cand
        ELSE IF Truthy(title) /\ _slugify(title.s) # <<>> THEN _slugify(title.s)
        ELSE PostHash(canonical_url, title)

----------------------------------------------------------------------------
(* _derive_slug applied to URLs assembled from bounded segment lists.      *)

SlugSegments == {
    <<"u", "k">>, <<"E", "N">>, <<"p", "a", "g", "e">>,
    <<"7">>, <<"1", "2", "3">>, <<"2", "0", "2", "3">>,
    <<"m", "y", "-", "p", "o", "s", "t">>, <<"M", "y", "-", "P", "o", "s", "t">> }

UrlPrefixes == {<<"h", "t", "t", "p", "s", ":", "/", "/", "x", ".", "c", "o", "/">>, <<"/">>}

UrlSuffixes == {<<>>, <<"/">>, <<"?", "p", "=", "2">>}

SlugTitles == {None,
               Str(<<"!", "!">>),
               Str(<<"M", "y", " ", " ", "P", "o", "s", "t", "!">>),
               Str(<<"H", "e_acute", "l", "l", "o", "em_dash", "2">>)}

RECURSIVE JoinSlash(_)
JoinSlash(segs) ==
    IF segs = <<>> THEN <<>>
    ELSE IF Len(segs) = 1 THEN segs[1]
    ELSE segs[1] \o <<"/">> \o JoinSlash(Tail(segs))

SegLists == UNION {[1..k -> SlugSegments] : k \in 0..MaxSegs}

InitDeriveSlug ==
    /\ \E segs \in SegLists, prefix \in UrlPrefixes, suffix \in UrlSuffixes,
          title \in SlugTitles, absent \in BOOLEAN :
          /\ absent => segs = <<>> /\ prefix = <<"/">> /\ suffix = <<>>
          /\ call = [fn |-> "_derive_slug",
                     segs |-> segs,
                     canonical_url |-> IF absent THEN None
                                       ELSE Str(prefix \o JoinSlash(segs) \o suffix),
                     title |-> title]
    /\ ret = NoReturn
    /\ NoRun

CallDeriveSlug ==
    /\ call.fn = "_derive_slug"
    /\ ret = NoReturn
    /\ ret' = Return(Str(_derive_slug(call.canonical_url, call.title)))
    /\ UNCHANGED <<call, runVars>>

NextDeriveSlug == CallDeriveSlug

SpecDeriveSlug == InitDeriveSlug /\ [][NextDeriveSlug]_vars

\* the segments the claim says are dropped
ClaimedNoise(s) ==
    \/ Lower(s) \in NoiseWords
    \/ AllDigits(s) /\ (Len(s) = 1 \/ Len(s) = 2 \/ Len(s) = 4)

RemainingSegs(segs) == SelectSeq(segs, LAMBDA s : ~ClaimedNoise(s))

\* C10: _derive_slug returns the last URL path segment that is not noise,
\* lower-cased; with no such segment the slugified title when it is
\* non-empty; otherwise "post-" and the digest of canonical_url or title or "x".
C10_DeriveSlug ==
    (call.fn = "_derive_slug" /\ ret # NoReturn) =>
        LET remaining == RemainingSegs(call.segs)
            titleSlug == IF call.title = None THEN <<>> ELSE _slugify(call.title.s)
            hashed == IF call.canonical_url # None /\ call.canonical_url.s # <<>>
                      THEN call.canonical_url.s
                      ELSE IF call.title # None /\ call.title.s # <<>> THEN call.title.s
                      ELSE <<"x">>
        IN  /\ ret.tag = "return"
            /\ ret.value.s =
                 IF remaining # <<>> THEN Lower(remaining[Len(remaining)])
                 ELSE IF titleSlug # <<>> THEN titleSlug
                 ELSE <<"p", "o", "s", "t", "-">> \o Sha1Hex8(hashed)

\* a URL with noise segments around a mixed-case segment has been resolved
C10_Witness ==
    /\ call.fn = "_derive_slug" /\ ret # NoReturn
    /\ Len(call.segs) = 3
    /\ call.segs[1] = <<"E", "N">>
    /\ call.segs[2] = <<"M", "y", "-", "P", "o", "s", "t">>
    /\ call.segs[3] = <<"2", "0", "2", "3">>
    /\ ret.value.s = <<"m", "y", "-", "p", "o", "s", "t">>

----------------------------------------------------------------------------
(* Dictionaries, regular expressions and parsed documents.                 *)

\* dict.get(key, default): a dict is a function whose domain is its keys
Get(d, key, default) == IF key \in DOMAIN d THEN d[key] ELSE default

\* `needle in haystack` on str
Contains(haystack, needle) ==
    \E i \in 1..(Len(haystack) - Len(needle) + 1) :
        SubSeq(haystack, i, i + Len(needle) - 1) = needle

\* The regular expressions of a schema are of the form
\*     [.*] literal [\d+ | (\d+) | (\d*)]
\* held as [any |-> BOOLEAN, lit |-> <<chars>>,
\*          digits |-> "none" | "plain" | "group" | "group*"].
\* The end, in s, of the longest run of digits that starts at position i.
RECURSIVE DigitRunEnd(_, _)
DigitRunEnd(s, i) ==
    IF i <= Len(s) /\ IsDigit(s[i]) THEN DigitRunEnd(s, i + 1) ELSE i - 1

\* the literal, and the digits the pattern asks for, sit at position i of s
LitAt(p, s, i) ==
    /\ i + Len(p.lit) - 1 <= Len(s)
    /\ SubSeq(s, i, i + Len(p.lit) - 1) = p.lit
    /\ p.digits \in {"plain", "group"} => DigitRunEnd(s, i + Len(p.lit)) >= i + Len(p.lit)

\* where a match that starts at position start puts the literal, 0 for no
\* match: ".*" is greedy, so the last possible place
LitPlace(p, s, start) ==
    LET places == {i \in start..(Len(s) + 1) : LitAt(p, s, i) /\ (~p.any => i = start)}
    IN  IF places = {} THEN 0 ELSE CHOOSE i \in places : \A j \in places : j <= i

MatchFrom(p, s, start) ==
    LET at == LitPlace(p, s, start)
        litEnd == at + Len(p.lit) - 1
        end == IF p.digits = "none" THEN litEnd ELSE DigitRunEnd(s, litEnd + 1)
    IN  IF at = 0 THEN [matched |-> FALSE]
        ELSE [matched |-> TRUE,
              group0 |-> SubSeq(s, start, end),
              groups |-> IF p.digits \in {"group", "group*"} THEN <<SubSeq(s, litEnd + 1, end)>> ELSE <<>>]

\* re.match(p, s): a match at the beginning of s
ReMatch(p, s) == MatchFrom(p, s, 1)

\* re.search(p, s): the leftmost match
ReSearch(p, s) ==
    LET starts == {i \in 1..(Len(s) + 1) : MatchFrom(p, s, i).matched}
    IN  IF starts = {} THEN [matched |-> FALSE]
        ELSE MatchFrom(p, s, CHOOSE i \in starts : \A j \in starts : i <= j)

\* A parsed document (the BeautifulSoup object) is what the query engine
\* answers: [select |-> for each selector the matched elements in document
\* order, body |-> the sequence holding the body element, if any].
\* An element is [text |-> <<chars>>, attrs |-> dict of attribute values].
\* soup.select(selector)
Select(soup, selector) == Get(soup.select, selector, <<>>)

\* soup.select_one(selector): the sequence holding the first match, if any
SelectOne(soup, selector) ==
    IF Select(soup, selector) = <<>> THEN <<>> ELSE <<Select(soup, selector)[1]>>

\* element.get(attribute, default)
ElementGet(element, attribute, default) == Get(element.attrs, attribute, default)

----------------------------------------------------------------------------
(* DoctifyExtractor.detect_page_type                                       *)
(* page_type_detection is the sequence, in declaration order, of           *)
(* [page_type, rules]; rules is the dict of the page type.                 *)

\* if url_pattern and re.match(url_pattern, url)
UrlChannel(rules, url) ==
    /\ Get(rules, "url_pattern", None) # None
    /\ ReMatch(rules["url_pattern"], url).matched

\* one meta rule: the outcome is Return(Bool(matched)), or the AttributeError
\* of .lower() on a multi-valued attribute
MetaRule(meta_rule, soup) ==
    LET element == SelectOne(soup, meta_rule.selector)
        actual == ElementGet(element[1], meta_rule.attribute, Str(<<>>))
    IN  IF element = <<>> THEN Return(Bool(FALSE))
        ELSE IF actual.t # "str" THEN Raise("AttributeError")
        ELSE Return(Bool(Contains(Lower(actual.s), Lower(meta_rule.value))))

RECURSIVE MetaChannel(_, _)
\* for meta_rule in meta_patterns
MetaChannel(meta_patterns, soup) ==
    IF meta_patterns = <<>> THEN Return(Bool(FALSE))
    ELSE LET first == MetaRule(Head(meta_patterns), soup)
         IN  IF first.tag = "raise" \/ first.value.b THEN first
             ELSE MetaChannel(Tail(meta_patterns), soup)

\* the body-class rules
BodyChannel(rules, soup) ==
    /\ soup.body # <<>>
    /\ LET classes == ElementGet(soup.body[1], "class", List(<<>>)).l
           patterns == Get(rules, "body_class_patterns", <<>>)
       IN  \E i \in 1..Len(patterns) : \E j \in 1..Len(classes) :
               Contains(Lower(classes[j].s), Lower(patterns[i]))

RECURSIVE DetectFrom(_, _, _)
\* for page_type, rules in detection_rules.items()
DetectFrom(detection_rules, url, soup) ==
    IF detection_rules = <<>> THEN Return(None)
    ELSE LET page_type == Head(detection_rules).page_type
             rules == Head(detection_rules).rules
             meta == MetaChannel(Get(rules, "meta_patterns", <<>>), soup)
         IN  IF UrlChannel(rules, url) THEN Return(Name(page_type))
             ELSE IF meta.tag = "raise" THEN meta
             ELSE IF meta.value.b THEN Return(Name(page_type))
             ELSE IF BodyChannel(rules, soup) THEN Return(Name(page_type))
             ELSE DetectFrom(Tail(detection_rules), url, soup)

RECURSIVE UrlFirstFrom(_, _)
UrlFirstFrom(detection_rules, url) ==
    IF detection_rules = <<>> THEN <<>>
    ELSE IF UrlChannel(Head(detection_rules).rules, url) THEN <<Head(detection_rules).page_type>>
    ELSE UrlFirstFrom(Tail(detection_rules), url)

\* detect_page_type as it would be with the URL patterns of all the page
\* types tried before any meta or body-class rule
detect_page_type_UrlFirst(selectors_schema, url, soup) ==
    LET rules == Get(selectors_schema, "page_type_detection", <<>>)
    IN  IF UrlFirstFrom(rules, url) # <<>> THEN Return(Name(UrlFirstFrom(rules, url)[1]))
        ELSE DetectFrom(rules, url, soup)

detect_page_type(selectors_schema, url, soup) ==
    DetectFrom(Get(selectors_schema, "page_type_detection", <<>>), url, soup)

----------------------------------------------------------------------------
(* detect_page_type applied to bounded detection schemas and documents.    *)

EmptyDict == [k \in {} |-> None]

PageTypeNames == <<"practitioner", "blog_post", "clinic", "specialism", "case_study">>

BlogUrl == <<"h", "t", "t", "p", "s", ":", "/", "/", "x", ".", "c", "o", "/", "b", "l", "o", "g", "/", "a">>
DoctorUrl == <<"h", "t", "t", "p", "s", ":", "/", "/", "x", ".", "c", "o", "/", "d", "r", "/", "b">>

BlogPattern == [any |-> FALSE, digits |-> "none",
                lit |-> <<"h", "t", "t", "p", "s", ":", "/", "/", "x", ".", "c", "o", "/", "b", "l", "o", "g", "/">>]
DoctorPattern == [any |-> TRUE, digits |-> "none", lit |-> <<"/", "d", "r", "/">>]

OgTypeRule == [selector |-> "meta[property=og:type]", attribute |-> "content",
               value |-> <<"A", "r", "t", "i", "c", "l", "e">>]

DetectionRules ==
    {u @@ m @@ b :
        u \in {EmptyDict, [url_pattern |-> BlogPattern], [url_pattern |-> DoctorPattern]},
        m \in {EmptyDict, [meta_patterns |-> <<OgTypeRule>>]},
        b \in {EmptyDict, [body_class_patterns |-> <<<<"B", "l", "o", "g">>>>]}}

DetectionSchemas ==
    UNION {{[i \in 1..k |-> [page_type |-> PageTypeNames[i], rules |-> r[i]]] :
              r \in [1..k -> DetectionRules]} : k \in 0..MaxTypes}

MetaElements == {
    <<>>,
    <<[text |-> <<>>, attrs |-> [content |-> Str(<<"a", "r", "t", "i", "c", "l", "e", "s">>)]]>>,
    <<[text |-> <<>>, attrs |-> [content |-> Str(<<"p", "r", "o", "f", "i", "l", "e">>)]]>> }

BodyElements == {
    <<>>,
    <<[text |-> <<>>, attrs |-> EmptyDict]>>,
    <<[text |-> <<>>, attrs |-> [class |-> List(<<Str(<<"p", "a", "g", "e">>),
                                                   Str(<<"s", "i", "t", "e", "-", "b", "l", "o", "g">>)>>)]]>> }

DetectSoups ==
    {[select |-> [s \in {"meta[property=og:type]"} |-> m], body |-> b] :
        m \in MetaElements, b \in BodyElements}

InitDetect ==
    /\ call \in [fn : {"detect_page_type"},
                 detection : DetectionSchemas,
                 url : {BlogUrl, DoctorUrl},
                 soup : DetectSoups]
    /\ ret = NoReturn
    /\ NoRun

CallDetect ==
    /\ call.fn = "detect_page_type"
    /\ ret = NoReturn
    /\ ret' = detect_page_type([page_type_detection |-> call.detection], call.url, call.soup)
    /\ UNCHANGED <<call, runVars>>

NextDetect == CallDetect

SpecDetect == InitDetect /\ [][NextDetect]_vars

\* some channel of the i-th declared page type matches the document
AnyChannel(i) ==
    LET rules == call.detection[i].rules
    IN  \/ UrlChannel(rules, call.url)
        \/ MetaChannel(Get(rules, "meta_patterns", <<>>), call.soup) = Return(Bool(TRUE))
        \/ BodyChannel(rules, call.soup)

\* C9: detect_page_type returns the first page type, in declaration order,
\* one of whose channels matches the document, and None when there is none.
C9_FirstDeclaredMatch ==
    (call.fn = "detect_page_type" /\ ret # NoReturn) =>
        LET hits == {i \in 1..Len(call.detection) : AnyChannel(i)}
        IN  /\ ret.tag = "return"
            /\ hits = {} => ret.value = None
            /\ hits # {} =>
                 ret.value = Name(call.detection[CHOOSE i \in hits : \A j \in hits : i <= j].page_type)

\* the first declared type matches by URL only, the second by its meta rule,
\* and the first was returned
C9_Witness ==
    /\ call.fn = "detect_page_type" /\ ret # NoReturn
    /\ Len(call.detection) = 2
    /\ UrlChannel(call.detection[1].rules, call.url)
    /\ "meta_patterns" \notin DOMAIN call.detection[1].rules
    /\ MetaChannel(Get(call.detection[2].rules, "meta_patterns", <<>>), call.soup) = Return(Bool(TRUE))
    /\ ret.value = Name(call.detection[1].page_type)

----------------------------------------------------------------------------
(* DoctifyExtractor._clean_text, _apply_pattern and the special methods.   *)

RECURSIVE CollapseSpaces(_)
\* re.sub(r'\s+', ' ', text)
CollapseSpaces(s) ==
    IF s = <<>> THEN <<>>
    ELSE IF ~IsSpace(Head(s)) THEN <<Head(s)>> \o CollapseSpaces(Tail(s))
    ELSE IF Len(s) >= 2 /\ IsSpace(s[2]) THEN CollapseSpaces(Tail(s))
    ELSE <<" ">> \o CollapseSpaces(Tail(s))

\* re.sub(r'[\u200b-\u200d\ufeff]', '', text)
RemoveZeroWidth(s) == SelectSeq(s, LAMBDA c : c \notin ZeroWidth)

_clean_text(text) ==
    IF text = <<>> THEN <<>>
    ELSE RemoveZeroWidth(CollapseSpaces(Strip(text)))

\* _apply_pattern on a value that is not a list
ApplyPatternOne(value, pattern) ==
    IF value.t # "str" THEN value
    ELSE LET match == ReSearch(pattern, value.s)
         IN  IF match.matched
             THEN Str(IF match.groups # <<>> THEN match.groups[1] ELSE match.group0)
             ELSE value

RECURSIVE ApplyPatternEach(_, _)
\* [self._apply_pattern(v, pattern) for v in value if v]
ApplyPatternEach(l, pattern) ==
    IF l = <<>> THEN <<>>
    ELSE (IF Truthy(Head(l)) THEN <<ApplyPatternOne(Head(l), pattern)>> ELSE <<>>)
         \o ApplyPatternEach(Tail(l), pattern)

_apply_pattern(value, pattern) ==
    IF value.t = "list" THEN List(ApplyPatternEach(value.l, pattern))
    ELSE ApplyPatternOne(value, pattern)

_extract_from_url(url, config) ==
    LET pattern == Get(config, "pattern", None)
        group == Get(config, "group", 0)
        match == ReSearch(pattern, url)
    IN  IF pattern = None THEN Return(None)
        ELSE IF ~match.matched THEN Return(None)
        ELSE IF group = 0 THEN Return(Str(match.group0))
        ELSE IF group <= Len(match.groups) THEN Return(Str(match.groups[group]))
        ELSE Raise("IndexError")

CanonicalSelector == "link[rel=\"canonical\"]"

_extract_canonical_url(soup) ==
    LET link == SelectOne(soup, CanonicalSelector)
    IN  IF link # <<>> THEN ElementGet(link[1], "href", None) ELSE None

\* A script element carries, under "json", what json.loads(script.string)
\* gives: [k |-> "nostring"] when script.string is None (TypeError),
\* [k |-> "invalid"] for a JSONDecodeError, [k |-> "dict", d |-> dict],
\* [k |-> "list", items |-> <<dicts>>] or [k |-> "scalar"].
JsonLdSelector == "script[type=\"application/ld+json\"]"

RECURSIVE FirstOfType(_, _)
FirstOfType(items, schema_types) ==
    IF items = <<>> THEN <<>>
    ELSE IF Get(Head(items), "@type", "") \in schema_types THEN <<Head(items)>>
    ELSE FirstOfType(Tail(items), schema_types)

\* one script: <<item>> when it returns an item, <<>> when the loop goes on,
\* and the TypeError of json.loads(None), which the except clause lets through
JsonLdScript(script, schema_types) ==
    LET loaded == Get(script, "json", [k |-> "nostring"])
        data == IF loaded.k = "dict" /\ "@graph" \in DOMAIN loaded.d
                THEN [k |-> "list", items |-> loaded.d["@graph"]]
                ELSE loaded
    IN  CASE loaded.k = "nostring" -> Raise("TypeError")
          [] loaded.k = "invalid" -> Return(<<>>)
          [] data.k = "list" -> Return(FirstOfType(data.items, schema_types))
          [] data.k = "dict" -> Return(FirstOfType(<<data.d>>, schema_types))
          [] OTHER -> Return(<<>>)

RECURSIVE JsonLdScripts(_, _)
JsonLdScripts(scripts, schema_types) ==
    IF scripts = <<>> THEN Return(None)
    ELSE LET first == JsonLdScript(Head(scripts), schema_types)
         IN  IF first.tag = "raise" THEN first
             ELSE IF first.value # <<>> THEN Return([t |-> "dict", d |-> first.value[1]])
             ELSE JsonLdScripts(Tail(scripts), schema_types)

_extract_json_ld(soup, config) ==
    JsonLdScripts(Select(soup, Get(config, "selector", JsonLdSelector)),
                  Get(config, "schema_types", {}))

----------------------------------------------------------------------------
(* DoctifyExtractor.extract_field                                          *)
(* A field_config is a dict.  Each entry of its selectors is               *)
(* [form |-> "str", selector |-> s] or [form |-> "dict", cfg |-> dict].    *)
(* An absent or empty selector or attribute is "".                         *)

\* `x = value` followed by Body(x): the value is computed once
Bind(value, Body(_)) == CHOOSE y \in {Body(x) : x \in {value}} : TRUE

\* str(element)
Html(element) == <<"<", "p", ">">> \o element.text \o <<"<", "/", "p", ">">>

RECURSIVE CleanTexts(_)
\* [self._clean_text(el.get_text()) for el in elements], empty strings removed
CleanTexts(elements) ==
    IF elements = <<>> THEN <<>>
    ELSE (IF _clean_text(Head(elements).text) # <<>>
          THEN <<Str(_clean_text(Head(elements).text))>> ELSE <<>>)
         \o CleanTexts(Tail(elements))

RECURSIVE AttributeValues(_, _)
\* [el.get(attribute, '') for el in elements], falsy values removed
AttributeValues(elements, attribute) ==
    IF elements = <<>> THEN <<>>
    ELSE (IF Truthy(ElementGet(Head(elements), attribute, Str(<<>>)))
          THEN <<ElementGet(Head(elements), attribute, Str(<<>>))>> ELSE <<>>)
         \o AttributeValues(Tail(elements), attribute)

\* the value after one selector has been evaluated (lines 161-190): `value`
\* is what the earlier selectors left
SelectorValue(soup, selector, sel_method, attribute, value) ==
    LET element == SelectOne(soup, selector)
    IN  CASE sel_method = "text" ->
                (IF element # <<>> THEN Str(_clean_text(element[1].text)) ELSE value)
          [] sel_method = "html" ->
                (IF element # <<>> THEN Str(Html(element[1])) ELSE value)
          [] sel_method = "attribute" \/ attribute # "" ->
                (IF element # <<>> /\ attribute # ""
                 THEN ElementGet(element[1], attribute, Str(<<>>)) ELSE value)
          [] sel_method = "text_list" -> List(CleanTexts(Select(soup, selector)))
          [] sel_method = "list" ->
                (IF attribute # "" THEN List(AttributeValues(Select(soup, selector), attribute))
                 ELSE value)
          [] sel_method = "exists" -> Bool(element # <<>>)
          [] OTHER -> value

\* if value is not None and value != '' and value != []
GotValue(value) == value # None /\ value # Str(<<>>) /\ value # List(<<>>)

RECURSIVE TrySelectors_NoBreak(_, _, _, _)
\* TrySelectors as it would be without the break of line 198: every selector
\* is evaluated and the last one with a value wins
TrySelectors_NoBreak(soup, field_config, selectors, value) ==
    IF selectors = <<>> THEN [value |-> value, hit |-> <<>>]
    ELSE LET selector_config == Head(selectors)
             isdict == selector_config.form = "dict"
             method == Get(field_config, "method", "text")
             selector == IF isdict THEN Get(selector_config.cfg, "selector", "")
                         ELSE selector_config.selector
             sel_method == IF isdict THEN Get(selector_config.cfg, "method", method) ELSE method
             attribute == IF isdict THEN Get(selector_config.cfg, "attribute", "")
                          ELSE Get(field_config, "attribute", "")
         IN  Bind(IF selector = "" THEN value
                  ELSE SelectorValue(soup, selector, sel_method, attribute, value), LAMBDA next :
             Bind(TrySelectors_NoBreak(soup, field_config, Tail(selectors), next), LAMBDA rest :
                  IF rest.hit = <<>> /\ selector # "" /\ GotValue(next)
                  THEN [value |-> rest.value, hit |-> <<selector>>]
                  ELSE rest))

RECURSIVE TrySelectors_HitOnAnyValue(_, _, _, _)
\* TrySelectors as it would be with `value is not None` as the test of line
\* 189: an empty string or an empty list ends the loop and counts as a hit
TrySelectors_HitOnAnyValue(soup, field_config, selectors, value) ==
    IF selectors = <<>> THEN [value |-> value, hit |-> <<>>]
    ELSE LET selector_config == Head(selectors)
             isdict == selector_config.form = "dict"
             method == Get(field_config, "method", "text")
             selector == IF isdict THEN Get(selector_config.cfg, "selector", "")
                         ELSE selector_config.selector
             sel_method == IF isdict THEN Get(selector_config.cfg, "method", method) ELSE method
             attribute == IF isdict THEN Get(selector_config.cfg, "attribute", "")
                          ELSE Get(field_config, "attribute", "")
         IN  IF selector = ""
             THEN TrySelectors_HitOnAnyValue(soup, field_config, Tail(selectors), value)
             ELSE Bind(SelectorValue(soup, selector, sel_method, attribute, value), LAMBDA next :
                  IF next # None THEN [value |-> next, hit |-> <<selector>>]
                  ELSE TrySelectors_HitOnAnyValue(soup, field_config, Tail(selectors), next))

RECURSIVE TrySelectors(_, _, _, _)
\* for selector_config in selectors: the value the loop ends with, and the
\* selector whose hit was counted (<<>> when the loop ran to its end)
TrySelectors(soup, field_config, selectors, value) ==
    IF selectors = <<>> THEN [value |-> value, hit |-> <<>>]
    ELSE LET selector_config == Head(selectors)
             isdict == selector_config.form = "dict"
             method == Get(field_config, "method", "text")
             selector == IF isdict THEN Get(selector_config.cfg, "selector", "")
                         ELSE selector_config.selector
             sel_method == IF isdict THEN Get(selector_config.cfg, "method", method) ELSE method
             attribute == IF isdict THEN Get(selector_config.cfg, "attribute", "")
                          ELSE Get(field_config, "attribute", "")
         IN  IF selector = "" THEN TrySelectors(soup, field_config, Tail(selectors), value)
             ELSE Bind(SelectorValue(soup, selector, sel_method, attribute, value), LAMBDA next :
                  IF GotValue(next) THEN [value |-> next, hit |-> <<selector>>]
                  ELSE TrySelectors(soup, field_config, Tail(selectors), next))

\* lines 200-210 of extract_field: pattern, type conversion and fallback
FinishField(field_config, value) ==
    LET pattern == Get(field_config, "pattern", None)
    IN  Bind(IF Truthy(value) /\ pattern # None THEN _apply_pattern(value, pattern) ELSE value,
             LAMBDA v : IF v # None
                        THEN _convert_type(v, Get(field_config, "type", "string"))
                        ELSE Return(Get(field_config, "fallback", None)))

\* the outcome of extract_field and the selector_hits key it incremented
extract_field(soup, field_config, url) ==
    LET method == Get(field_config, "method", "text")
    IN  CASE method = "from_url" -> [out |-> _extract_from_url(url, field_config), hit |-> <<>>]
          [] method = "canonical_url" -> [out |-> Return(_extract_canonical_url(soup)), hit |-> <<>>]
          [] method = "json_ld" -> [out |-> _extract_json_ld(soup, field_config), hit |-> <<>>]
          [] OTHER ->
                Bind(TrySelectors(soup, field_config, Get(field_config, "selectors", <<>>), None),
                     LAMBDA found : [out |-> FinishField(field_config, found.value),
                                     hit |-> found.hit])

----------------------------------------------------------------------------
(* extract_field applied to bounded field configurations and documents.    *)

StrSel(selector) == [form |-> "str", selector |-> selector]
DictSel(cfg) == [form |-> "dict", cfg |-> cfg]

SelectorSpecs == {StrSel("h1.name"), StrSel("a.link"),
                  DictSel([selector |-> "a.link", attribute |-> "href"]),
                  DictSel([selector |-> "a.link"]),
                  DictSel([method |-> "text"])}

SelectorLists == UNION {[1..k -> SelectorSpecs] : k \in 0..MaxSelectors}

PagePattern == [any |-> FALSE, lit |-> <<"/", "p", "/">>, digits |-> "group"]

FieldConfigs ==
    {m @@ a @@ f @@ t @@ p @@ [selectors |-> sels] :
        m \in {EmptyDict} \cup {[method |-> x] : x \in {"html", "attribute", "text_list", "list", "exists"}},
        a \in {EmptyDict, [attribute |-> "href"]},
        f \in {EmptyDict, [fallback |-> Str(<<"N", "/", "A">>)]},
        t \in {EmptyDict, [type |-> "integer"]},
        p \in {EmptyDict, [pattern |-> PagePattern]},
        sels \in SelectorLists}

EmptyElement == [text |-> <<" ">>, attrs |-> EmptyDict]
BlankLink == [text |-> <<"zwsp">>, attrs |-> [href |-> Str(<<>>)]]
NameElement == [text |-> <<" ", "D", "r", " ", " ", "X", "\n">>, attrs |-> [href |-> Str(<<"/", "p", "/", "7">>)]]
NumberElement == [text |-> <<"1", ",", "2">>, attrs |-> [href |-> Str(<<"/", "d", "r">>)]]

ElementLists == {<<>>, <<EmptyElement>>, <<NameElement, BlankLink>>, <<NumberElement, EmptyElement>>}

FieldSoups ==
    {[select |-> [s \in {"h1.name", "a.link"} |-> IF s = "h1.name" THEN h ELSE l], body |-> <<>>] :
        h \in ElementLists, l \in ElementLists}

InitField ==
    /\ call \in [fn : {"extract_field"}, soup : FieldSoups, field_config : FieldConfigs]
    /\ ret = NoReturn
    /\ NoRun

CallField ==
    /\ call.fn = "extract_field"
    /\ ret = NoReturn
    /\ ret' = extract_field(call.soup, call.field_config, <<>>)
    /\ UNCHANGED <<call, runVars>>

NextField == CallField

SpecField == InitField /\ [][NextField]_vars

\* what the i-th declared selector of the call produces by itself
OwnValue(i) ==
    LET fc == call.field_config
        sc == fc.selectors[i]
        method == Get(fc, "method", "text")
    IN  IF sc.form = "dict"
        THEN IF Get(sc.cfg, "selector", "") = "" THEN None
             ELSE SelectorValue(call.soup, sc.cfg.selector, Get(sc.cfg, "method", method),
                                Get(sc.cfg, "attribute", ""), None)
        ELSE SelectorValue(call.soup, sc.selector, method, Get(fc, "attribute", ""), None)

OwnSelector(i) ==
    IF call.field_config.selectors[i].form = "dict"
    THEN call.field_config.selectors[i].cfg.selector
    ELSE call.field_config.selectors[i].selector

\* the declared selectors whose own result is non-empty
Yielding == {i \in 1..Len(call.field_config.selectors) : GotValue(OwnValue(i))}

\* the pattern and the type of the field applied to a selector's value
Finished(value) ==
    LET pattern == Get(call.field_config, "pattern", None)
    IN  _convert_type(IF Truthy(value) /\ pattern # None THEN _apply_pattern(value, pattern)
                      ELSE value,
                      Get(call.field_config, "type", "string"))

\* C6: with a selector-based method extract_field returns the value of the
\* first declared selector whose result is non-empty (with the field's
\* pattern and type applied) and counts the hit of that selector: selectors
\* with an empty result are passed over, later selectors play no part.
C6_FirstNonEmptySelector ==
    (call.fn = "extract_field" /\ ret # NoReturn /\ Yielding # {}) =>
        LET first == CHOOSE i \in Yielding : \A j \in Yielding : i <= j
        IN  /\ ret.out = Finished(OwnValue(first))
            /\ ret.hit = <<OwnSelector(first)>>

\* the first selector matched an element with blank text, the second gave the
\* value that was returned
C6_Witness ==
    /\ call.fn = "extract_field" /\ ret # NoReturn
    /\ Len(call.field_config.selectors) = 2
    /\ call.field_config.selectors[1] = StrSel("h1.name")
    /\ call.soup.select["h1.name"] = <<EmptyElement>>
    /\ OwnValue(1) = Str(<<>>)
    /\ ret.out = Return(Str(<<"D", "r", " ", "X">>))
    /\ ret.hit = <<"a.link">>

\* C7 (as claimed): when no declared selector yields a value, extract_field
\* returns the configured fallback, None when there is none.
C7_FallbackWhenNothingFound ==
    (call.fn = "extract_field" /\ ret # NoReturn /\ Yielding = {}) =>
        ret.out = Return(Get(call.field_config, "fallback", None))

----------------------------------------------------------------------------
(* DoctifyExtractor.extract_entity, extract_reviews and process_file.      *)
(* A selector schema maps a page type to the sequence, in declaration      *)
(* order, of [name, config]; an entity is a dict from field names to       *)
(* values.                                                                 *)

\* datetime.now().isoformat(): the time of the run does not enter any value
\* compared here
Timestamp == Name("extracted_at")

RECURSIVE ExtractFields_FailureDropsField(_, _, _, _, _)
\* ExtractFields as it would be without line 392: a field whose resolution
\* raises is left out of the entity
ExtractFields_FailureDropsField(fields, reserved, soup, url, acc) ==
    IF fields = <<>> THEN acc
    ELSE IF Head(fields).name \in reserved
    THEN ExtractFields_FailureDropsField(Tail(fields), reserved, soup, url, acc)
    ELSE Bind(extract_field(soup, Head(fields).config, url), LAMBDA got :
         Bind([data |-> IF got.out.tag = "return"
                        THEN (Head(fields).name :> got.out.value) @@ acc.data
                        ELSE acc.data,
               hits |-> acc.hits \o got.hit], LAMBDA next :
         ExtractFields_FailureDropsField(Tail(fields), reserved, soup, url, next)))

RECURSIVE ExtractFields(_, _, _, _, _)
\* the loop over the fields of extract_entity and of extract_reviews, which
\* pass over the reserved keys: the entity and, in order, the selector_hits
\* keys incremented on the way
ExtractFields(fields, reserved, soup, url, acc) ==
    IF fields = <<>> THEN acc
    ELSE IF Head(fields).name \in reserved
    THEN ExtractFields(Tail(fields), reserved, soup, url, acc)
    ELSE Bind(extract_field(soup, Head(fields).config, url), LAMBDA got :
         Bind([data |-> (Head(fields).name :>
                            (IF got.out.tag = "return" THEN got.out.value
                             ELSE Get(Head(fields).config, "fallback", None)))
                        @@ acc.data,
               hits |-> acc.hits \o got.hit], LAMBDA next :
         ExtractFields(Tail(fields), reserved, soup, url, next)))

\* lines 394-406 of extract_entity, on the fields resolved
StampEntity(page_type, fields, url, html_path) ==
    LET slug == _derive_slug(Or(Get(fields.data, "canonical_url", None), Str(url)),
                             Get(fields.data, "title", Str(<<>>)))
        derived == IF page_type = "blog_post"
                   THEN ("slug" :> Str(slug)) @@ fields.data ELSE fields.data
    IN  [data |-> ("extracted_at" :> Timestamp) @@ ("source_file" :> Str(html_path)) @@ derived,
         hits |-> fields.hits]

extract_entity(selectors_schema, page_type, soup, url, html_path) ==
    Bind(ExtractFields(Get(selectors_schema, page_type, <<>>), {"container", "structured_data"},
                       soup, url, [data |-> EmptyDict, hits |-> <<>>]), LAMBDA fields :
         StampEntity(page_type, fields, url, html_path))

\* the config of the reserved key `container` of the review fields
ReviewContainer(review_config) ==
    LET found == SelectSeq(review_config, LAMBDA f : f.name = "container")
    IN  IF found = <<>> THEN EmptyDict ELSE found[1].config

\* a variant that leaves the index out
SynthesizedId_NoIndex(entity_id, idx) ==
    Str(PyStr(entity_id) \o <<"_", "r", "e", "v", "i", "e", "w">>)

\* f"{entity_id}_review_{idx}"
SynthesizedId(entity_id, idx) ==
    Str(PyStr(entity_id) \o <<"_", "r", "e", "v", "i", "e", "w", "_">> \o NatToDigits(idx))

\* one review: the fields are resolved against the container's own subtree,
\* and a review_id is generated when none was found
ExtractReview(review_config, container, idx, entity_id, entity_type) ==
    Bind(ExtractFields(review_config, {"container"}, container.inner, <<>>,
                       [data |-> ("reviewed_entity_type" :> Name(entity_type))
                                 @@ ("reviewed_entity_id" :> entity_id)
                                 @@ ("extracted_at" :> Timestamp),
                        hits |-> <<>>]), LAMBDA fields :
         [data |-> IF ~Truthy(Get(fields.data, "review_id", None))
                   THEN ("review_id" :> SynthesizedId(entity_id, idx)) @@ fields.data
                   ELSE fields.data,
          hits |-> fields.hits])

RECURSIVE ExtractReviewsFrom(_, _, _, _, _)
\* for idx, container in enumerate(review_containers)
ExtractReviewsFrom(review_config, containers, idx, entity_id, entity_type) ==
    IF containers = <<>> THEN [reviews |-> <<>>, hits |-> <<>>]
    ELSE Bind(ExtractReview(review_config, Head(containers), idx, entity_id, entity_type),
              LAMBDA one :
         Bind(ExtractReviewsFrom(review_config, Tail(containers), idx + 1, entity_id, entity_type),
              LAMBDA rest :
         [reviews |-> <<one.data>> \o rest.reviews, hits |-> one.hits \o rest.hits]))

extract_reviews(selectors_schema, soup, entity_id, entity_type) ==
    LET review_config == Get(selectors_schema, "review", <<>>)
        container_selector == Get(ReviewContainer(review_config), "selector", "div.review")
    IN  ExtractReviewsFrom(review_config, Select(soup, container_selector), 0,
                           entity_id, entity_type)

MirrorDir == <<"m", "i", "r", "r", "o", "r">>

\* str(mirror_dir / variant / rel_path)
HtmlPath(variant, rel_path) ==
    MirrorDir \o <<"/">> \o variant \o <<"/">> \o JoinSlash(rel_path)

\* the URL process_file reconstructs from the path of a file that has no
\* canonical link: Raise("ValueError") when relative_to is given a directory
\* the file is not under
ReconstructUrl(html_path) ==
    LET variant == IF Contains(html_path, <<"r", "e", "n", "d", "e", "r", "e", "d">>) THEN <<"r", "e", "n", "d", "e", "r", "e", "d">> ELSE <<"r", "a", "w">>
        root == MirrorDir \o <<"/">> \o variant \o <<"/">>
        rel_path == NonEmpty(Split(DropFirst(html_path, Len(root)), "/"))
        parent == SubSeq(rel_path, 1, Len(rel_path) - 1)
    IN  IF Len(html_path) >= Len(root) /\ SubSeq(html_path, 1, Len(root)) = root
        THEN Return(Str(<<"h", "t", "t", "p", "s", ":", "/", "/">> \o (IF parent = <<>> THEN <<".">> ELSE JoinSlash(parent))))
        ELSE Raise("ValueError")

\* a variant that looks for reviews in every document
ReviewsOf_Always(selectors_schema, page_type, soup, entity) ==
    extract_reviews(selectors_schema, soup, Get(entity.data, "doctify_id", None), page_type)

\* lines 501-509 of process_file: the reviews of a practitioner or a clinic
\* that has an identifier
ReviewsOf(selectors_schema, page_type, soup, entity) ==
    IF page_type \in {"practitioner", "clinic"} /\ Truthy(Get(entity.data, "doctify_id", None))
    THEN extract_reviews(selectors_schema, soup, entity.data["doctify_id"], page_type)
    ELSE [reviews |-> <<>>, hits |-> <<>>]

\* process_file from the page type on (lines 490-509)
ProcessTyped(selectors_schema, page_type, soup, url, html_path) ==
    Bind(extract_entity(selectors_schema, page_type, soup, url, html_path), LAMBDA entity :
    Bind(ReviewsOf(selectors_schema, page_type, soup, entity), LAMBDA found :
         [out |-> Return([page_type |-> page_type, url |-> url, entity |-> entity.data,
                          reviews |-> found.reviews]),
          hits |-> entity.hits \o found.hits]))

\* lines 474-482 of process_file: the canonical URL of the document, or the
\* URL reconstructed from the path of the file
UrlOf(file) ==
    Bind(_extract_canonical_url(file.soup), LAMBDA canonical :
         IF Truthy(canonical) THEN Return(canonical) ELSE ReconstructUrl(file.path))

\* process_file: the outcome (Return(None) for a file that is skipped) and the
\* selector_hits keys incremented.  A file is [path, readable, soup].
process_file(selectors_schema, file) ==
    IF ~file.readable THEN [out |-> Return(None), hits |-> <<>>]
    ELSE Bind(UrlOf(file), LAMBDA url :
         IF url.tag = "raise" THEN [out |-> url, hits |-> <<>>]
         ELSE Bind(detect_page_type(selectors_schema, url.value.s, file.soup), LAMBDA page_type :
              IF page_type.tag = "raise" THEN [out |-> page_type, hits |-> <<>>]
              ELSE IF ~Truthy(page_type.value) THEN [out |-> Return(None), hits |-> <<>>]
              ELSE ProcessTyped(selectors_schema, page_type.value.id, file.soup,
                                url.value.s, file.path)))

----------------------------------------------------------------------------
(* The schema and the corpus of the modelled runs.                         *)

Field(name, config) == [name |-> name, config |-> config]

RunSchema ==
    ("page_type_detection" :> <<
        [page_type |-> "blog_post",
         rules |-> [url_pattern |-> [any |-> TRUE, lit |-> <<"/", "b", "l", "o", "g", "/">>, digits |-> "none"]]],
        [page_type |-> "practitioner",
         rules |-> [url_pattern |-> [any |-> TRUE, lit |-> <<"/", "d", "r", "/">>, digits |-> "none"]]],
        [page_type |-> "case_study",
         rules |-> [body_class_patterns |-> <<<<"c", "a", "s", "e", "-", "s", "t", "u", "d", "y">>>>]] >>)
    @@ ("blog_post" :> <<
        Field("title", [selectors |-> <<StrSel("h1")>>]),
        Field("canonical_url", [method |-> "canonical_url"]),
        Field("published_date",
              [method |-> "attribute", type |-> "datetime",
               selectors |-> <<DictSel([selector |-> "time", attribute |-> "datetime"])>>]) >>)
    @@ ("practitioner" :> <<
        Field("doctify_id",
              [method |-> "from_url", group |-> 1,
               pattern |-> [any |-> FALSE, lit |-> <<"/", "d", "r", "/">>, digits |-> "group"]]),
        Field("name", [selectors |-> <<StrSel("h1")>>, fallback |-> Str(<<"u", "n", "k", "n", "o", "w", "n">>)]) >>)
    @@ ("case_study" :> << Field("title", [selectors |-> <<StrSel("h1")>>]) >>)
    @@ ("review" :> <<
        Field("container", [selector |-> "div.review"]),
        Field("review_id", [selectors |-> <<StrSel(".id")>>]),
        Field("rating", [selectors |-> <<StrSel(".rating")>>, type |-> "integer"]),
        Field("date", [selectors |-> <<StrSel(".date")>>, type |-> "date"]) >>)

\* the primary key the entity schema declares for a page type
RunPrimaryKey(page_type) ==
    CASE page_type \in {"practitioner", "clinic"} -> "doctify_id"
      [] page_type = "blog_post" -> "canonical_url"
      [] OTHER -> "source_file"

Elem(text, attrs) == [text |-> text, attrs |-> attrs]
Soup(select, body) == [select |-> select, body |-> body]

BlogPlainSoup == Soup("h1" :> <<Elem(<<"M", "y", " ", "P", "o", "s", "t">>, EmptyDict)>>, <<>>)

BlogCanonSoup ==
    Soup(("h1" :> <<Elem(<<"M", "y", " ", "P", "o", "s", "t">>, EmptyDict)>>)
         @@ (CanonicalSelector :> <<Elem(<<>>, [href |-> Str(<<"h", "t", "t", "p", "s", ":", "/", "/", "x", ".", "c", "o", "/", "b", "l", "o", "g", "/", "m", "y", "-", "p", "o", "s", "t">>)])>>),
         <<>>)

BlogDatedSoup ==
    Soup(("h1" :> <<Elem(<<"O", "l", "d", " ", "P", "o", "s", "t">>, EmptyDict)>>)
         @@ ("time" :> <<Elem(<<"2", " ", "J", "a", "n">>, [datetime |-> Str(<<"2", "0", "2", "3", "-", "0", "1", "-", "0", "2">>)])>>),
         <<>>)

ReviewOne ==
    [text |-> <<"r", "1", " ", "5">>, attrs |-> EmptyDict,
     inner |-> Soup((".id" :> <<Elem(<<"r", "1">>, EmptyDict)>>)
                    @@ (".rating" :> <<Elem(<<"5">>, EmptyDict)>>), <<>>)]

ReviewTwo ==
    [text |-> <<"4">>, attrs |-> EmptyDict,
     inner |-> Soup(".rating" :> <<Elem(<<"4">>, EmptyDict)>>, <<>>)]

ReviewDated ==
    [text |-> <<"3", " ", "2", "0", "2", "3", "-", "0", "1", "-", "0", "2">>, attrs |-> EmptyDict,
     inner |-> Soup((".rating" :> <<Elem(<<"3">>, EmptyDict)>>)
                    @@ (".date" :> <<Elem(<<"2", "0", "2", "3", "-", "0", "1", "-", "0", "2">>, EmptyDict)>>),
                    <<>>)]

PractitionerSoup ==
    Soup(("h1" :> <<Elem(<<"D", "r", " ", "X">>, EmptyDict)>>)
         @@ ("div.review" :> <<ReviewOne, ReviewTwo>>), <<>>)

OtherSoup == Soup(EmptyDict, <<Elem(<<>>, [class |-> List(<<Str(<<"h", "o", "m", "e">>)>>)])>>)

\* a practitioner page whose canonical URL carries no identifier
PractitionerNoIdSoup ==
    Soup(("h1" :> <<Elem(<<"D", "r", " ", "Y">>, EmptyDict)>>)
         @@ (CanonicalSelector :> <<Elem(<<>>, [href |-> Str(<<"h", "t", "t", "p", "s", ":", "/", "/", "x", ".", "c", "o", "/", "d", "r", "/">>)])>>)
         @@ ("div.review" :> <<ReviewTwo>>), <<>>)

\* a practitioner page whose second review carries its date
PractitionerDatedSoup ==
    Soup(("h1" :> <<Elem(<<"D", "r", " ", "Z">>, EmptyDict)>>)
         @@ ("div.review" :> <<ReviewOne, ReviewDated>>), <<>>)

CaseStudySoup ==
    Soup(("h1" :> <<Elem(<<"A", " ", "C", "a", "s", "e">>, EmptyDict)>>)
         @@ ("div.review" :> <<ReviewOne>>),
         <<Elem(<<>>, [class |-> List(<<Str(<<"c", "a", "s", "e", "-", "s", "t", "u", "d", "y">>)>>)])>>)

Doc(readable, soup) == <<[readable |-> readable, soup |-> soup]>>

\* A page of the site: the directory it is mirrored under and its captured
\* variants (<<>> for a variant that was not captured).
Pages == <<
    [section |-> <<<<"b", "l", "o", "g">>, <<"m", "y", "-", "p", "o", "s", "t">>>>, raw |-> Doc(TRUE, BlogPlainSoup), rendered |-> <<>>],
    [section |-> <<<<"b", "l", "o", "g">>, <<"m", "y", "-", "p", "o", "s", "t">>>>, raw |-> Doc(TRUE, BlogPlainSoup),
                                          rendered |-> Doc(TRUE, BlogCanonSoup)],
    [section |-> <<<<"b", "l", "o", "g">>, <<"o", "l", "d", "-", "p", "o", "s", "t">>>>, raw |-> <<>>, rendered |-> Doc(TRUE, BlogDatedSoup)],
    [section |-> <<<<"d", "r">>>>, raw |-> Doc(TRUE, PractitionerSoup), rendered |-> <<>>],
    [section |-> <<<<"a", "b", "o", "u", "t">>>>, raw |-> Doc(TRUE, OtherSoup), rendered |-> Doc(FALSE, OtherSoup)],
    [section |-> <<<<"a", "b", "o", "u", "t">>>>, raw |-> Doc(TRUE, OtherSoup), rendered |-> <<>>],
    [section |-> <<<<"w", "o", "r", "k">>>>, raw |-> Doc(TRUE, CaseStudySoup), rendered |-> <<>>],
    [section |-> <<<<"d", "r">>>>, raw |-> Doc(TRUE, PractitionerNoIdSoup), rendered |-> <<>>],
    [section |-> <<<<"d", "r">>>>, raw |-> Doc(TRUE, PractitionerDatedSoup), rendered |-> <<>>] >>

\* the corpora: up to MaxFiles pages; the i-th page is mirrored under
\* x.co/<section>/<i>/index.html
Corpora ==
    UNION {{c \in [1..k -> 1..Len(Pages)] : \A i \in 1..(k - 1) : c[i] <= c[i + 1]} :
             k \in 0..MaxFiles}

RelPath(corpus, i) ==
    <<<<"x", ".", "c", "o">>>> \o Pages[corpus[i]].section \o <<NatToDigits(i), <<"i", "n", "d", "e", "x", ".", "h", "t", "m", "l">>>>

EntityTypes == <<"practitioner", "clinic", "blog_post", "review", "specialism">>

Formats == {"jsonl", "json"}

----------------------------------------------------------------------------
(* DoctifyExtractor.process_directory                                      *)

\* the permutations of a finite set, as sequences
Perms(S) == {p \in [1..Cardinality(S) -> S] : \A i, j \in 1..Cardinality(S) : p[i] = p[j] => i = j}

\* a variant that prefers the raw file
SelectedFile_PreferRaw(corpus, i) ==
    LET page == Pages[corpus[i]]
        variant == IF page.raw # <<>> THEN <<"r", "a", "w">> ELSE <<"r", "e", "n", "d", "e", "r", "e", "d">>
        doc == IF page.raw # <<>> THEN page.raw[1] ELSE page.rendered[1]
    IN  [rel |-> i, variant |-> variant, path |-> HtmlPath(variant, RelPath(corpus, i)),
         readable |-> doc.readable, soup |-> doc.soup]

\* lines 541-547: the file kept for the i-th relative path, the rendered one
\* when there is one
SelectedFile(corpus, i) ==
    LET page == Pages[corpus[i]]
        variant == IF page.rendered # <<>> THEN <<"r", "e", "n", "d", "e", "r", "e", "d">> ELSE <<"r", "a", "w">>
        doc == IF page.rendered # <<>> THEN page.rendered[1] ELSE page.raw[1]
    IN  [rel |-> i, variant |-> variant, path |-> HtmlPath(variant, RelPath(corpus, i)),
         readable |-> doc.readable, soup |-> doc.soup]

\* list(file_mapping.values()): the keys of file_mapping are inserted while
\* iterating the set raw_files and then the set rendered_files, whose
\* iteration order is not fixed; a rendered file takes the place of the raw
\* file of the same relative path.
FileOrders(corpus) ==
    LET withRaw == {i \in 1..Len(corpus) : Pages[corpus[i]].raw # <<>>}
        renderedOnly == {i \in 1..Len(corpus) : Pages[corpus[i]].raw = <<>>}
    IN  {[k \in 1..Len(corpus) |-> SelectedFile(corpus, (a \o b)[k])] :
            a \in Perms(withRaw), b \in Perms(renderedOnly)}

\* json.dumps accepts the value (a datetime is not JSON serializable)
JsonOk(v) ==
    /\ v.t # "datetime"
    /\ v.t = "list" => \A i \in 1..Len(v.l) : v.l[i].t # "datetime"

Serializable(d) == \A k \in DOMAIN d : JsonOk(d[k])

\* AllocateSlug with the path of the source file as the only disambiguator
AllocateSlug_SourceFileOnly(page_type, entity_data, seen) ==
    IF page_type = "blog_post" /\ "slug" \in DOMAIN entity_data
    THEN LET original_slug == entity_data["slug"]
             suffixed == Str(original_slug.s \o <<"-">>
                             \o Sha1Hex8(Get(entity_data, "source_file", Str(<<>>)).s))
             final == IF original_slug \in seen THEN suffixed ELSE original_slug
         IN  [entity |-> ("slug" :> final) @@ entity_data,
              seen |-> seen \cup {final},
              collisions |-> IF original_slug \in seen THEN 1 ELSE 0]
    ELSE [entity |-> entity_data, seen |-> seen, collisions |-> 0]

\* lines 577-587: the entity with its final slug, the slugs seen, and the
\* number of collisions resolved
AllocateSlug(page_type, entity_data, seen) ==
    IF page_type = "blog_post" /\ "slug" \in DOMAIN entity_data
    THEN LET original_slug == entity_data["slug"]
             url == Or(Get(entity_data, "canonical_url", None),
                       Get(entity_data, "source_file", Str(<<>>)))
             suffixed == Str(original_slug.s \o <<"-">> \o Sha1Hex8(url.s))
             final == IF original_slug \in seen THEN suffixed ELSE original_slug
         IN  [entity |-> ("slug" :> final) @@ entity_data,
              seen |-> seen \cup {final},
              collisions |-> IF original_slug \in seen THEN 1 ELSE 0]
    ELSE [entity |-> entity_data, seen |-> seen, collisions |-> 0]

\* the reviews written before json.dumps raises, if it does
RECURSIVE WritableReviews(_)
WritableReviews(reviews) ==
    IF reviews = <<>> \/ ~Serializable(Head(reviews)) THEN <<>>
    ELSE <<Head(reviews)>> \o WritableReviews(Tail(reviews))

Incremented(counts, key, n) == (key :> (Get(counts, key, 0) + n)) @@ counts

RECURSIVE CountHits(_, _)
CountHits(hits, keys) ==
    IF keys = <<>> THEN hits ELSE CountHits(Incremented(hits, Head(keys), 1), Tail(keys))

\* the document is lost to the count: an exception that leaves the counters
\* as they were
Tally_ErrorsDropped(counts, outcome) ==
    IF outcome = "errors" THEN counts ELSE [counts EXCEPT ![outcome] = @ + 1]

\* stats['skipped'] += 1, stats['processed'] += 1, stats['errors'] += 1
Tally(counts, outcome) == [counts EXCEPT ![outcome] = @ + 1]

\* lines 519-563: the output files are opened (and truncated), the files are
\* selected and the counters reset
Start ==
    /\ pc = "ready"
    /\ entity_files' = IF format = "jsonl"
                       THEN [t \in {EntityTypes[i] : i \in 1..Len(EntityTypes)} |-> <<>>]
                       ELSE EmptyDict
    /\ html_files' \in FileOrders(mirror)
    /\ stats' = [total |-> Len(mirror), processed |-> 0, skipped |-> 0, errors |-> 0,
                 by_type |-> EmptyDict, slug_collisions |-> 0]
    /\ seen_slugs' = {}
    /\ pos' = 1
    /\ pc' = "loop"
    /\ UNCHANGED <<call, ret, mirror, format, selector_hits, previous, scanVars>>

\* lines 573-602 on a result of process_file that is not None: the counters,
\* the slugs seen and the output files after it, an exception raised on the
\* way being counted by the except clause of line 607
WriteResult(value, counts, seen, files) ==
    LET page_type == value.page_type
        slugged == AllocateSlug(page_type, value.entity, seen)
        hasFile == page_type \in DOMAIN files
        entityFails == hasFile /\ ~Serializable(slugged.entity)
        withEntity == IF hasFile /\ ~entityFails
                      THEN [files EXCEPT ![page_type] = @ \o <<slugged.entity>>]
                      ELSE files
        byType == IF hasFile /\ ~entityFails
                  THEN Incremented(counts.by_type, page_type, 1) ELSE counts.by_type
        reviews == value.reviews
        written == WritableReviews(reviews)
        \* entity_files['review'] is a KeyError when no file was opened
        reviewsFail == reviews # <<>> /\ ("review" \notin DOMAIN files
                                         \/ Len(written) < Len(reviews))
        withReviews == IF "review" \in DOMAIN withEntity
                       THEN [withEntity EXCEPT !["review"] = @ \o written]
                       ELSE withEntity
        collided == [counts EXCEPT !.slug_collisions = @ + slugged.collisions]
    IN  IF entityFails
        THEN [stats |-> Tally(collided, "errors"), seen_slugs |-> slugged.seen,
              entity_files |-> files]
        ELSE IF reviewsFail
        THEN [stats |-> Tally([collided EXCEPT !.by_type = byType], "errors"),
              seen_slugs |-> slugged.seen, entity_files |-> withReviews]
        ELSE [stats |-> Tally([collided EXCEPT
                                 !.by_type = IF reviews # <<>>
                                             THEN Incremented(byType, "review", Len(reviews))
                                             ELSE byType], "processed"),
              seen_slugs |-> slugged.seen, entity_files |-> withReviews]

\* a variant that counts a skipped document as an error
HandleResult_SkipIsError(result, counts, seen, files) ==
    IF result.out.tag = "raise" \/ result.out.value = None
    THEN [stats |-> Tally(counts, "errors"), seen_slugs |-> seen, entity_files |-> files]
    ELSE WriteResult(result.out.value, counts, seen, files)

\* the body of the loop (lines 567-607) on the outcome of process_file
HandleResult(result, counts, seen, files) ==
    IF result.out.tag = "raise"
    THEN [stats |-> Tally(counts, "errors"), seen_slugs |-> seen, entity_files |-> files]
    ELSE IF result.out.value = None
    THEN [stats |-> Tally(counts, "skipped"), seen_slugs |-> seen, entity_files |-> files]
    ELSE WriteResult(result.out.value, counts, seen, files)

\* the files that the corpora can select
SelectableFiles == UNION {{SelectedFile(corpus, i) : i \in 1..Len(corpus)} : corpus \in Corpora}

\* self.process_file(html_path) for each of them, tabulated: the outcome
\* depends on the file and the schema only
Processed == <<>> @@ [file \in SelectableFiles |-> process_file(RunSchema, file)]

\* lines 566-607: one iteration of the loop over html_files
ProcessFile ==
    /\ pc = "loop"
    /\ pos <= Len(html_files)
    /\ \E result \in {Processed[html_files[pos]]} :
       \E after \in {HandleResult(result, stats, seen_slugs, entity_files)} :
          /\ selector_hits' = CountHits(selector_hits, result.hits)
          /\ stats' = after.stats
          /\ seen_slugs' = after.seen_slugs
          /\ entity_files' = after.entity_files
    /\ pos' = pos + 1
    /\ UNCHANGED <<call, ret, mirror, format, pc, html_files, previous, scanVars>>

\* lines 609-629: the loop is over, the files are closed and the reports made
Finish ==
    /\ pc = "loop"
    /\ pos > Len(html_files)
    /\ pc' = "done"
    /\ UNCHANGED <<call, ret, mirror, format, html_files, pos, stats, seen_slugs,
                   entity_files, selector_hits, previous, scanVars>>

\* the (page_type, primary_key, slug) of every entity written
WrittenTuples ==
    UNION {{<<t, Get(entity_files[t][i], RunPrimaryKey(t), None),
              Get(entity_files[t][i], "slug", None)>> : i \in 1..Len(entity_files[t])} :
             t \in DOMAIN entity_files \ {"review"}}

\* main() once more, over the same corpus with the same schema and arguments:
\* a new DoctifyExtractor, whose selector_hits are empty
Rerun ==
    /\ pc = "done"
    /\ previous = <<>>
    /\ previous' = <<WrittenTuples>>
    /\ selector_hits' = EmptyDict
    /\ pc' = "ready"
    /\ UNCHANGED <<call, ret, mirror, format, html_files, pos, stats, seen_slugs, entity_files,
                   scanVars>>

Init ==
    /\ call = [fn |-> "process_directory"]
    /\ ret = NoReturn
    /\ mirror \in Corpora
    /\ format \in Formats
    /\ pc = "ready"
    /\ html_files = <<>>
    /\ pos = 0
    /\ stats = <<>>
    /\ seen_slugs = {}
    /\ entity_files = <<>>
    /\ selector_hits = EmptyDict
    /\ previous = <<>>
    /\ NoScan

Next == Start \/ ProcessFile \/ Finish \/ Rerun

Spec == Init /\ [][Next]_vars

\* The for loop of process_directory, run by the interpreter: an iteration
\* that can be taken is taken, and the loop is left once the files are
\* exhausted.  The first condition is WF_vars(ProcessFile) with the enabling
\* condition of ProcessFile, the guard of the loop, written out.
FairSpec ==
    /\ Spec
    /\ (<>[](pc = "loop" /\ pos <= Len(html_files))) => []<><<ProcessFile>>_vars
    /\ WF_vars(Finish)

----------------------------------------------------------------------------
(* Properties of process_directory.                                        *)

\* the records written to blog_post.jsonl so far
BlogPosts == IF "blog_post" \in DOMAIN entity_files THEN entity_files["blog_post"] ELSE <<>>

\* the step is an iteration of the loop over html_files
Iteration == pc = "loop" /\ pos <= Len(html_files) /\ pos' = pos + 1

\* process_file returned a result for the document
Extracted(result) == result.out.tag = "return" /\ result.out.value # None

\* C1: within one run, whatever the corpus and the order of the documents, no
\* two records written to the blog_post partition carry the same final slug.
C1_SlugsUnique ==
    \A i, j \in 1..Len(BlogPosts) : i # j => BlogPosts[i]["slug"] # BlogPosts[j]["slug"]

\* C2: a derived slug that is not in seen_slugs is issued unchanged and
\* recorded, and slug_collisions is unchanged; one that is in seen_slugs is
\* issued as <derived>-<sha1(disambiguator)[:8]>, the disambiguator being the
\* canonical_url, or the source file when that is empty, the suffixed slug is
\* recorded and slug_collisions grows by exactly one.
C2_SlugAllocation ==
    [][Iteration =>
        \A result \in {process_file(RunSchema, html_files[pos])} :
            (Extracted(result) /\ result.out.value.page_type = "blog_post") =>
                LET entity == result.out.value.entity
                    derived == entity["slug"]
                    canonical == Get(entity, "canonical_url", None)
                    disambiguator == IF canonical \notin {None, Str(<<>>)} THEN canonical
                                     ELSE entity["source_file"]
                    collides == derived \in seen_slugs
                    issued == IF collides
                              THEN Str(derived.s \o <<"-">> \o Sha1Hex8(disambiguator.s))
                              ELSE derived
                IN  /\ seen_slugs' = seen_slugs \cup {issued}
                    /\ stats'.slug_collisions
                         = stats.slug_collisions + (IF collides THEN 1 ELSE 0)
                    /\ Len(BlogPosts') > Len(BlogPosts) =>
                         /\ Len(BlogPosts') = Len(BlogPosts) + 1
                         /\ BlogPosts'[Len(BlogPosts')]["slug"] = issued]_vars

\* a run has ended in which a second post with a canonical URL took the slug
\* of an earlier one, suffixed, and a post without a canonical URL did too
C2_Witness ==
    /\ pc = "done"
    /\ stats.slug_collisions >= 2
    /\ \E i, j, k \in 1..Len(BlogPosts) :
          /\ i < j /\ i < k
          /\ Truthy(BlogPosts[j]["canonical_url"])
          /\ BlogPosts[j]["slug"] = Str(BlogPosts[i]["slug"].s \o <<"-">>
                                        \o Sha1Hex8(BlogPosts[j]["canonical_url"].s))
          /\ BlogPosts[k]["canonical_url"] = None
          /\ BlogPosts[k]["slug"] = Str(BlogPosts[i]["slug"].s \o <<"-">>
                                        \o Sha1Hex8(BlogPosts[k]["source_file"].s))

\* C3: two runs over the same corpus with the same schema write the same set
\* of (page_type, primary_key, slug) tuples, whatever the order in which each
\* run iterates the files.
C3_SameTuplesOnRerun ==
    (pc = "done" /\ previous # <<>>) => WrittenTuples = previous[1]

\* C4: for every document classified to a page type whose entity is
\* extracted, exactly one line holding that entity is written to the output
\* file of its page type.
C4_OneLinePerEntity ==
    [][Iteration =>
        \A result \in {process_file(RunSchema, html_files[pos])} :
            (Extracted(result) /\ result.out.value.page_type \in DOMAIN entity_files) =>
                LET page_type == result.out.value.page_type
                    lines == entity_files[page_type]
                IN  /\ Len(entity_files'[page_type]) = Len(lines) + 1
                    /\ SubSeq(entity_files'[page_type], 1, Len(lines)) = lines
                    /\ entity_files'[page_type][Len(lines) + 1]["source_file"]
                         = result.out.value.entity["source_file"]]_vars

\* the documents counted so far
Counted == stats.processed + stats.skipped + stats.errors

\* C5: every selected file is handled and the end of the batch is always
\* reached: each iteration counts its document in exactly one of processed,
\* skipped and errors, and at the end processed + skipped + errors = total.
C5_BatchCompletes ==
    /\ [](pc = "loop" => Counted = pos - 1)
    /\ [](pc = "done" => Counted = stats.total /\ pos = Len(html_files) + 1)
    /\ [][Iteration =>
            \E k \in {"processed", "skipped", "errors"} :
                /\ stats'[k] = stats[k] + 1
                /\ \A o \in {"processed", "skipped", "errors"} \ {k} : stats'[o] = stats[o]]_vars
    /\ (pc = "loop") ~> (pc = "done")

\* a run has ended that processed a document, skipped one and failed on one
C5_Witness ==
    pc = "done" /\ stats.processed >= 1 /\ stats.skipped >= 1 /\ stats.errors >= 1

----------------------------------------------------------------------------
(* DataValidator (src/pipelines/validate.py).                              *)
(* Field names and primary keys are strings of characters; an error        *)
(* message is held as [kind, field], its kind being the sentence it is     *)
(* built from.                                                             *)

Error(kind, field_name) == [kind |-> kind, field |-> field_name]

\* a == b on values read from JSON: numbers compare by value across bool,
\* int and float, and nan equals nothing
PyEq(a, b) ==
    LET Numeric(v) == v.t \in {"bool", "int"} \/ (v.t = "float" /\ v.k = "fin")
    IN  IF Numeric(a) /\ Numeric(b) THEN Tenths(a) = Tenths(b)
        ELSE IF a.t = "float" /\ a.k = "nan" THEN FALSE
        ELSE a = b

\* isinstance(value, str | int | float | bool | list | dict); bool is a
\* subclass of int
IsInstance(value, class) ==
    CASE class = "str" -> value.t = "str"
      [] class = "int" -> value.t \in {"int", "bool"}
      [] class = "float" -> value.t = "float"
      [] class = "bool" -> value.t = "bool"
      [] class = "list" -> value.t = "list"
      [] class = "dict" -> value.t = "dict"

\* _validate_type: <<the error>> or <<>> for None
_validate_type(field_name, value, expected_type) ==
    CASE expected_type = "string" ->
            (IF ~IsInstance(value, "str") THEN <<Error("type", field_name)>> ELSE <<>>)
      [] expected_type = "integer" ->
            (IF ~IsInstance(value, "int") \/ IsInstance(value, "bool")
             THEN <<Error("type", field_name)>> ELSE <<>>)
      [] expected_type = "float" ->
            (IF ~(IsInstance(value, "int") \/ IsInstance(value, "float"))
                \/ IsInstance(value, "bool")
             THEN <<Error("type", field_name)>> ELSE <<>>)
      [] expected_type = "boolean" ->
            (IF ~IsInstance(value, "bool") THEN <<Error("type", field_name)>> ELSE <<>>)
      [] expected_type \in {"array", "array[string]"} ->
            (IF ~IsInstance(value, "list") THEN <<Error("type", field_name)>> ELSE <<>>)
      [] expected_type = "object" ->
            (IF ~IsInstance(value, "dict") THEN <<Error("type", field_name)>> ELSE <<>>)
      [] expected_type \in {"url", "email", "text", "html"} ->
            (IF ~IsInstance(value, "str") THEN <<Error("type", field_name)>> ELSE <<>>)
      [] expected_type \in {"date", "datetime"} ->
            (IF ~IsInstance(value, "str") THEN <<Error("type", field_name)>> ELSE <<>>)
      [] OTHER -> <<>>

\* what `$` leaves to be matched: the string without one final newline
BeforeDollar(s) ==
    IF s # <<>> /\ s[Len(s)] = "\n" THEN SubSeq(s, 1, Len(s) - 1) ELSE s

\* the length of the longest prefix of s made of characters satisfying In
PrefixLen(s, In(_)) ==
    IF \A i \in 1..Len(s) : In(s[i]) THEN Len(s)
    ELSE (CHOOSE i \in 1..Len(s) : ~In(s[i]) /\ \A j \in 1..(i - 1) : In(s[j])) - 1

AllOf(s, In(_)) == \A i \in 1..Len(s) : In(s[i])

\* [A-Z0-9](?:[A-Z0-9-]{0,61}[A-Z0-9])? under re.IGNORECASE
IsLabel(l) ==
    /\ Len(l) \in 1..63
    /\ IsAsciiAlnum(l[1]) /\ IsAsciiAlnum(l[Len(l)])
    /\ AllOf(l, LAMBDA c : IsAsciiAlnum(c) \/ c = "-")

\* (?:label\.)+[A-Z]{2,6}\.?
IsDomain(host) ==
    LET h == IF host # <<>> /\ host[Len(host)] = "." THEN SubSeq(host, 1, Len(host) - 1)
             ELSE host
        labels == Split(h, ".")
        n == Len(labels)
    IN  /\ n >= 2
        /\ Len(labels[n]) \in 2..6 /\ AllOf(labels[n], IsAlpha)
        /\ \A i \in 1..(n - 1) : IsLabel(labels[i])

\* \d{1,3}\.\d{1,3}\.\d{1,3}\.\d{1,3}
IsIp(host) ==
    LET parts == Split(host, ".")
    IN  /\ Len(parts) = 4
        /\ \A i \in 1..4 : Len(parts[i]) \in 1..3 /\ AllOf(parts[i], IsDigit)

\* (?::\d+)?(?:/?|[/?]\S+)$ on what follows the host
IsPortAndPath(s) ==
    LET port == IF s # <<>> /\ Head(s) = ":" THEN PrefixLen(Tail(s), IsDigit) ELSE 0
        rest == IF s # <<>> /\ Head(s) = ":" THEN DropFirst(s, port + 1) ELSE s
    IN  /\ (s # <<>> /\ Head(s) = ":") => port >= 1
        /\ \/ rest = <<>>
           \/ rest = <<"/">>
           \/ /\ Len(rest) >= 2
              /\ Head(rest) \in {"/", "?"}
              /\ AllOf(Tail(rest), LAMBDA c : ~IsSpace(c))

\* _is_valid_url on a str
_is_valid_url(url) ==
    LET low == Lower(BeforeDollar(url))
        scheme == IF Len(low) >= 8 /\ SubSeq(low, 1, 8) = <<"h", "t", "t", "p", "s", ":", "/", "/">> THEN 8
                  ELSE IF Len(low) >= 7 /\ SubSeq(low, 1, 7) = <<"h", "t", "t", "p", ":", "/", "/">> THEN 7
                  ELSE 0
        rest == DropFirst(low, scheme)
        hostLen == PrefixLen(rest, LAMBDA c : IsAsciiAlnum(c) \/ c \in {"-", "."})
        host == SubSeq(rest, 1, hostLen)
    IN  /\ scheme > 0
        /\ host = <<"l", "o", "c", "a", "l", "h", "o", "s", "t">> \/ IsIp(host) \/ IsDomain(host)
        /\ IsPortAndPath(DropFirst(rest, hostLen))

\* _is_valid_email on a str:  ^[a-zA-Z0-9._%+-]+@[a-zA-Z0-9.-]+\.[a-zA-Z]{2,}$
_is_valid_email(email) ==
    LET s == BeforeDollar(email)
        at == FindFirst(s, {"@"})
        local == SubSeq(s, 1, at - 1)
        domain == DropFirst(s, at)
        dots == {i \in 1..Len(domain) : domain[i] = "."}
        lastDot == CHOOSE i \in dots : \A j \in dots : j <= i
    IN  /\ at >= 2
        /\ AllOf(local, LAMBDA c : IsAsciiAlnum(c) \/ c \in {".", "_", "%", "+", "-"})
        /\ dots # {}
        /\ lastDot >= 2
        /\ AllOf(SubSeq(domain, 1, lastDot - 1), LAMBDA c : IsAsciiAlnum(c) \/ c \in {".", "-"})
        /\ Len(domain) - lastDot >= 2
        /\ AllOf(DropFirst(domain, lastDot), IsAlpha)

\* `value in allowed_values` on a list
InList(value, allowed_values) == \E i \in 1..Len(allowed_values) : PyEq(value, allowed_values[i])

\* a variant with the upper bound left out of the range
InRatingRange_UpperExcluded(value) ==
    IF value.t = "float" /\ value.k # "fin" THEN FALSE
    ELSE 0 <= Tenths(value) /\ Tenths(value) < 50

\* 0 <= value <= 5 on an int or a float
InRatingRange(value) ==
    IF value.t = "float" /\ value.k # "fin" THEN FALSE
    ELSE 0 <= Tenths(value) /\ Tenths(value) <= 50

\* lines 86-104 of validate_field: the checks particular to the type
TypeSpecific(field_name, value, field_type) ==
    CASE field_type = "url" ->
            (IF ~_is_valid_url(value.s) THEN <<Error("url", field_name)>> ELSE <<>>)
      [] field_type = "email" ->
            (IF ~_is_valid_email(value.s) THEN <<Error("email", field_name)>> ELSE <<>>)
      [] field_type = "float" ->
            (IF Contains(Lower(field_name), <<"r", "a", "t", "i", "n", "g">>) /\ ~InRatingRange(value)
             THEN <<Error("range", field_name)>> ELSE <<>>)
      [] field_type = "integer" ->
            (IF value.n < 0 THEN <<Error("negative", field_name)>> ELSE <<>>)
      [] OTHER -> <<>>

\* the enum check of lines 106-112
EnumCheck(field_name, value, field_schema) ==
    IF "enum" \in DOMAIN field_schema /\ ~InList(value, field_schema["enum"])
    THEN <<Error("enum", field_name)>> ELSE <<>>

\* a variant that goes on to the other checks after the required error
validate_field_RequiredGoesOn(field_name, value, field_schema) ==
    LET required == Get(field_schema, "required", FALSE)
        field_type == Get(field_schema, "type", "string")
        type_error == _validate_type(field_name, value, field_type)
        missing == required /\ (value = None \/ value = Str(<<>>) \/ value = List(<<>>))
    IN  (IF missing THEN <<Error("required", field_name)>> ELSE <<>>)
        \o (IF value = None THEN <<>>
            ELSE IF type_error # <<>> THEN type_error
            ELSE TypeSpecific(field_name, value, field_type)
                 \o EnumCheck(field_name, value, field_schema))

\* a variant that goes on to the enum check after a type error
validate_field_TypeErrorGoesOn(field_name, value, field_schema) ==
    LET required == Get(field_schema, "required", FALSE)
        field_type == Get(field_schema, "type", "string")
        type_error == _validate_type(field_name, value, field_type)
    IN  IF required /\ (value = None \/ value = Str(<<>>) \/ value = List(<<>>))
        THEN <<Error("required", field_name)>>
        ELSE IF value = None /\ ~required THEN <<>>
        ELSE IF type_error # <<>>
             THEN type_error \o EnumCheck(field_name, value, field_schema)
        ELSE TypeSpecific(field_name, value, field_type)
             \o EnumCheck(field_name, value, field_schema)

\* validate_field: the list of errors
validate_field(field_name, value, field_schema) ==
    LET required == Get(field_schema, "required", FALSE)
        field_type == Get(field_schema, "type", "string")
        type_error == _validate_type(field_name, value, field_type)
    IN  IF required /\ (value = None \/ value = Str(<<>>) \/ value = List(<<>>))
        THEN <<Error("required", field_name)>>
        ELSE IF value = None /\ ~required THEN <<>>
        ELSE IF type_error # <<>> THEN type_error
        ELSE TypeSpecific(field_name, value, field_type)
             \o EnumCheck(field_name, value, field_schema)

----------------------------------------------------------------------------
(* validate_field applied to bounded names, values and field schemas.      *)

FieldNames == {<<"a", "v", "e", "r", "a", "g", "e", "_", "r", "a", "t", "i", "n", "g">>, <<"R", "a", "t", "i", "n", "g">>, <<"r", "e", "v", "i", "e", "w", "_", "c", "o", "u", "n", "t">>, <<"w", "e", "b", "s", "i", "t", "e">>}

ValidatorStrings == {<<>>, <<"a">>, <<"h", "t", "t", "p", ":", "/", "/", "a", ".", "c", "o">>, <<"h", "t", "t", "p", "s", ":", "/", "/", "a", ".", "c", "o", "/", "x", " ", "y">>, <<"a", "@", "b", ".", "c", "o">>, <<"a", "@", "b">>}

ValidatorValues ==
    {None, Bool(TRUE), List(<<>>), List(<<Str(<<"a">>)>>), Dict(EmptyDict),
     Int_(-1), Int_(0), Int_(5), Int_(6),
     Float(0), Float(5), Decimal(-1), Decimal(42), Decimal(51), Decimal(55),
     FloatNaN, FloatInf, FloatNegInf}
    \cup {Str(s) : s \in ValidatorStrings}

FieldTypes == {"string", "integer", "float", "boolean", "array", "object", "url", "email",
               "datetime", "slug"}

FieldSchemas ==
    {r @@ t @@ e :
        r \in {EmptyDict, [required |-> TRUE], [required |-> FALSE]},
        t \in {EmptyDict} \cup {[type |-> x] : x \in FieldTypes},
        e \in {EmptyDict, [enum |-> <<Int_(5), Str(<<"a">>)>>]}}

InitValidateField ==
    /\ call \in [fn : {"validate_field"}, field_name : FieldNames, value : ValidatorValues,
                 field_schema : FieldSchemas]
    /\ ret = NoReturn
    /\ NoRun

CallValidateField ==
    /\ call.fn = "validate_field"
    /\ ret = NoReturn
    /\ ret' = Return(validate_field(call.field_name, call.value, call.field_schema))
    /\ UNCHANGED <<call, runVars>>

NextValidateField == CallValidateField

SpecValidateField == InitValidateField /\ [][NextValidateField]_vars


----------------------------------------------------------------------------
(* Claims on validate_field.                                               *)

\* a call of validate_field that has returned
FieldValidated == call.fn = "validate_field" /\ ret # NoReturn

FieldRequired == Get(call.field_schema, "required", FALSE)

FieldType == Get(call.field_schema, "type", "string")

\* the errors of one kind among those returned
ErrorsOfKind(errors, kind) == {i \in 1..Len(errors) : errors[i].kind = kind}

\* C11: on a required field whose value is null, the empty string or the
\* empty list, validate_field returns exactly one error, the missing
\* required field, and no type, format, range or enum error.
C11_RequiredEmptyIsOneError ==
    (FieldValidated /\ FieldRequired /\ call.value \in {None, Str(<<>>), List(<<>>)}) =>
        ret.value = <<Error("required", call.field_name)>>

\* an empty string was validated as a required url restricted to an enum:
\* neither the type-specific check nor the enum check has spoken
C11_Witness ==
    /\ FieldValidated
    /\ FieldRequired
    /\ call.value = Str(<<>>)
    /\ FieldType = "url"
    /\ "enum" \in DOMAIN call.field_schema
    /\ ret.value = <<Error("required", call.field_name)>>

\* C12: when the value fails the check of the declared type, validate_field
\* returns exactly that one type error; a type error never comes with a
\* format, range or enum error for the same field.
C12_TypeErrorIsExclusive ==
    FieldValidated =>
        /\ ErrorsOfKind(ret.value, "type") # {} =>
               ret.value = <<Error("type", call.field_name)>>
        /\ (/\ call.value # None
            /\ ~(FieldRequired /\ call.value \in {Str(<<>>), List(<<>>)})
            /\ _validate_type(call.field_name, call.value, FieldType) # <<>>) =>
               ret.value = <<Error("type", call.field_name)>>

\* a boolean was validated as a string restricted to an enum it is not in:
\* the type error came alone
C12_Witness ==
    /\ FieldValidated
    /\ call.value = Bool(FALSE) \/ call.value = Bool(TRUE)
    /\ FieldType = "string"
    /\ "enum" \in DOMAIN call.field_schema
    /\ ~InList(call.value, call.field_schema["enum"])
    /\ ret.value = <<Error("type", call.field_name)>>

\* a number that passed the type check of a float or an integer field
IsNumber(value) == value.t \in {"int", "float"}

\* the number lies in [0, 5]; nan and the infinities lie outside
InsideZeroToFive(value) ==
    /\ value.t = "float" => value.k = "fin"
    /\ Tenths(value) >= 0
    /\ Tenths(value) <= 50

\* C13: for a float field whose name contains "rating", validate_field
\* reports exactly one range error when the value lies outside [0, 5] and
\* none when it lies inside, both bounds included; for an integer field it
\* reports a range error exactly when the value is negative.
C13_RangeChecks ==
    /\ (/\ FieldValidated
        /\ FieldType = "float"
        /\ IsNumber(call.value)
        /\ Contains(Lower(call.field_name), <<"r", "a", "t", "i", "n", "g">>)) =>
            /\ Cardinality(ErrorsOfKind(ret.value, "range"))
                 = (IF InsideZeroToFive(call.value) THEN 0 ELSE 1)
            /\ ErrorsOfKind(ret.value, "negative") = {}
    /\ (FieldValidated /\ FieldType = "integer" /\ call.value.t = "int") =>
            /\ Cardinality(ErrorsOfKind(ret.value, "negative"))
                 = (IF call.value.n < 0 THEN 1 ELSE 0)
            /\ ErrorsOfKind(ret.value, "range") = {}

\* 5.5 was validated as average_rating: one error, out of range
C13_Witness ==
    /\ FieldValidated
    /\ FieldType = "float"
    /\ call.field_name = <<"a", "v", "e", "r", "a", "g", "e", "_", "r", "a", "t", "i", "n", "g">>
    /\ call.value = Decimal(55)
    /\ "enum" \notin DOMAIN call.field_schema
    /\ ret.value = <<Error("range", call.field_name)>>


----------------------------------------------------------------------------
(* validate_entity.  An entity is a dict from field names to values; the   *)
(* fields of an entity schema are kept in the order of the schema file.    *)

\* the loop over field_schemas.items(): the field errors, in order
RECURSIVE ValidateFields(_, _)
ValidateFields(field_schemas, entity_data) ==
    IF field_schemas = <<>> THEN <<>>
    ELSE validate_field(Head(field_schemas).name,
                        Get(entity_data, Head(field_schemas).name, None),
                        Head(field_schemas).schema)
         \o ValidateFields(Tail(field_schemas), entity_data)

\* a variant that looks at the primary key only when the fields were clean
PrimaryKeyCheck_OnlyWhenClean(entity_schema, entity_data, errors) ==
    IF errors # <<>> THEN <<>>
    ELSE IF "primary_key" \notin DOMAIN entity_schema THEN <<>>
    ELSE IF Truthy(Get(entity_data, entity_schema["primary_key"], None)) THEN <<>>
    ELSE <<Error("primary_key", entity_schema["primary_key"])>>

\* lines 214-219: the error for a primary key that is missing or empty,
\* errors being what the field loop has reported
PrimaryKeyCheck(entity_schema, entity_data, errors) ==
    IF "primary_key" \notin DOMAIN entity_schema THEN <<>>
    ELSE IF Truthy(Get(entity_data, entity_schema["primary_key"], None)) THEN <<>>
    ELSE <<Error("primary_key", entity_schema["primary_key"])>>

\* validate_entity: (is_valid, errors)
validate_entity(entities_schema, entity_data, entity_type) ==
    LET entities == Get(entities_schema, "entities", EmptyDict)
        entity_schema == Get(entities, entity_type, EmptyDict)
        field_errors == ValidateFields(Get(entity_schema, "fields", <<>>), entity_data)
        errors == field_errors \o PrimaryKeyCheck(entity_schema, entity_data, field_errors)
    IN  IF DOMAIN entity_schema = {}
        THEN [is_valid |-> FALSE, errors |-> <<Error("unknown", entity_type)>>]
        ELSE [is_valid |-> Len(errors) = 0, errors |-> errors]

\* a field of an entity schema
SchemaField(name, schema) == [name |-> name, schema |-> schema]

\* the schema the validator is run with: a required and an optional string
\* key, an entity without a primary key, one whose key is not among its
\* fields and one that is declared empty
ValidatorSchema ==
    [entities |->
        [practitioner |->
            [fields |-> <<SchemaField(<<"d", "o", "c", "t", "i", "f", "y", "_", "i", "d">>, [type |-> "string", required |-> TRUE]),
                          SchemaField(<<"a", "v", "e", "r", "a", "g", "e", "_", "r", "a", "t", "i", "n", "g">>, [type |-> "float"])>>,
             primary_key |-> <<"d", "o", "c", "t", "i", "f", "y", "_", "i", "d">>],
         clinic |->
            [fields |-> <<SchemaField(<<"d", "o", "c", "t", "i", "f", "y", "_", "i", "d">>, [type |-> "string"]),
                          SchemaField(<<"a", "v", "e", "r", "a", "g", "e", "_", "r", "a", "t", "i", "n", "g">>, [type |-> "float"])>>,
             primary_key |-> <<"d", "o", "c", "t", "i", "f", "y", "_", "i", "d">>],
         blog_post |->
            [fields |-> <<SchemaField(<<"s", "l", "u", "g">>, [type |-> "string", required |-> TRUE])>>],
         review |->
            [fields |-> <<SchemaField(<<"a", "v", "e", "r", "a", "g", "e", "_", "r", "a", "t", "i", "n", "g">>, [type |-> "float", required |-> TRUE])>>,
             primary_key |-> <<"r", "e", "v", "i", "e", "w", "_", "i", "d">>],
         comment |-> EmptyDict]]

ValidatorEntityTypes == {"practitioner", "clinic", "blog_post", "review", "comment", "specialty"}

\* the dicts that give each key one of the values offered for it, or lack it
DictsOver(offered) ==
    UNION {[keys -> UNION {offered[k] : k \in keys}] : keys \in SUBSET DOMAIN offered}

EntityDatas ==
    LET offered == (<<"d", "o", "c", "t", "i", "f", "y", "_", "i", "d">> :> {None, Str(<<>>), Str(<<"d", "o", "c", "-", "4", "2">>), Int_(0), Int_(7)})
                   @@ (<<"a", "v", "e", "r", "a", "g", "e", "_", "r", "a", "t", "i", "n", "g">> :> {Decimal(42), Decimal(55)})
                   @@ (<<"s", "l", "u", "g">> :> {Str(<<"m", "y", "-", "p", "o", "s", "t">>)})
                   @@ (<<"r", "e", "v", "i", "e", "w", "_", "i", "d">> :> {Str(<<"r", "1">>), List(<<>>)})
    IN  {d \in DictsOver(offered) : \A k \in DOMAIN d : d[k] \in offered[k]}

InitValidateEntity ==
    /\ call \in [fn : {"validate_entity"}, entity_data : EntityDatas,
                 entity_type : ValidatorEntityTypes]
    /\ ret = NoReturn
    /\ NoRun

CallValidateEntity ==
    /\ call.fn = "validate_entity"
    /\ ret = NoReturn
    /\ ret' = Return(validate_entity(ValidatorSchema, call.entity_data, call.entity_type))
    /\ UNCHANGED <<call, runVars>>

NextValidateEntity == CallValidateEntity

SpecValidateEntity == InitValidateEntity /\ [][NextValidateEntity]_vars

\* a call of validate_entity on a declared entity type has returned
EntityValidated ==
    /\ call.fn = "validate_entity"
    /\ ret # NoReturn
    /\ call.entity_type \in DOMAIN ValidatorSchema.entities
    /\ DOMAIN ValidatorSchema.entities[call.entity_type] # {}

\* some field of the schema produced an error on the entity of the call
SomeFieldError ==
    LET field_schemas == ValidatorSchema.entities[call.entity_type].fields
    IN  \E i \in 1..Len(field_schemas) :
            validate_field(field_schemas[i].name,
                           Get(call.entity_data, field_schemas[i].name, None),
                           field_schemas[i].schema) # <<>>

\* the schema declares a primary key that the entity lacks or holds empty
\* (None, '', 0 and the other values Python takes for false)
PrimaryKeyMissing ==
    LET entity_schema == ValidatorSchema.entities[call.entity_type]
    IN  /\ "primary_key" \in DOMAIN entity_schema
        /\ \/ entity_schema.primary_key \notin DOMAIN call.entity_data
           \/ ~Truthy(call.entity_data[entity_schema.primary_key])

\* C14: validate_entity returns is_valid = true exactly when its error list
\* is empty, that is when no schema field produced an error and the primary
\* key of the schema is present and non-empty on the entity; an absent or
\* empty primary key adds its own error whatever the field loop reported.
C14_ValidIffNoErrors ==
    /\ (call.fn = "validate_entity" /\ ret # NoReturn) =>
            (ret.value.is_valid <=> ret.value.errors = <<>>)
    /\ EntityValidated =>
            /\ ret.value.is_valid <=> (~SomeFieldError /\ ~PrimaryKeyMissing)
            /\ PrimaryKeyMissing <=>
                   ErrorsOfKind(ret.value.errors, "primary_key") = {Len(ret.value.errors)}
            /\ ~PrimaryKeyMissing => ErrorsOfKind(ret.value.errors, "primary_key") = {}

\* a practitioner without doctify_id and with a rating out of range was
\* validated: the required error, the range error and the primary key error
C14_Witness ==
    /\ EntityValidated
    /\ call.entity_type = "practitioner"
    /\ <<"d", "o", "c", "t", "i", "f", "y", "_", "i", "d">> \notin DOMAIN call.entity_data
    /\ ~ret.value.is_valid
    /\ ret.value.errors = <<Error("required", <<"d", "o", "c", "t", "i", "f", "y", "_", "i", "d">>),
                            Error("range", <<"a", "v", "e", "r", "a", "g", "e", "_", "r", "a", "t", "i", "n", "g">>),
                            Error("primary_key", <<"d", "o", "c", "t", "i", "f", "y", "_", "i", "d">>)>>


----------------------------------------------------------------------------
(* validate_file: the scan of one JSONL file, one line per step.  A line   *)
(* is blank, or text that json.loads rejects, or the JSON text of a value. *)

MaxLines == 3

\* the number of error records validate_file keeps
MaxStoredErrors == 100

BlankLine == [kind |-> "blank"]
MalformedLine == [kind |-> "text"]
JsonLine(value) == [kind |-> "json", value |-> value]

\* json.loads(line)
json_loads(line) ==
    IF line.kind = "json" THEN Return(line.value) ELSE Raise("JSONDecodeError")

\* stats as validate_file creates it
NewFileStats ==
    [total |-> 0, valid |-> 0, invalid |-> 0, errors |-> <<>>,
     primary_key_duplicates |-> <<>>, field_coverage |-> EmptyDict]

\* stats['field_coverage'][field] += 1 for the keys of a record
CountFields(field_coverage, entity_data) ==
    [field \in DOMAIN field_coverage \cup DOMAIN entity_data |->
        Get(field_coverage, field, 0) + (IF field \in DOMAIN entity_data THEN 1 ELSE 0)]

\* stats['errors'].append(record) while fewer than 100 are kept
StoreError(so_far, record) ==
    IF Len(so_far.errors) < MaxStoredErrors
    THEN [so_far EXCEPT !.errors = Append(@, record)]
    ELSE so_far

\* hash(value) does not raise
Hashable(value) == value.t \notin {"list", "dict"}

\* pk_value in seen_keys: the same object or an equal one
InSeenKeys(pk_value, seen) == \E k \in seen : k = pk_value \/ PyEq(pk_value, k)

\* a variant that numbers the lines from 0
Duplicate_ZeroBased(line, pk_value) == [line |-> line - 1, key |-> pk_value]

\* the record appended to primary_key_duplicates
Duplicate(line, pk_value) == [line |-> line, key |-> pk_value]

\* HandleLine as it would be with stats['total'] += 1 ahead of json.loads: a
\* malformed line is counted in total as well
HandleLine_TotalBeforeLoads(entities_schema, entity_type, line, line_no, so_far, seen) ==
    LET entity_schema == Get(Get(entities_schema, "entities", EmptyDict), entity_type, EmptyDict)
        has_key == "primary_key" \in DOMAIN entity_schema /\ entity_schema.primary_key # <<>>
        loaded == json_loads(line)
        entity_data == loaded.value
        pk_value == IF has_key THEN Get(entity_data.d, entity_schema.primary_key, None) ELSE None
        counted == [so_far EXCEPT !.total = @ + 1]
        covered == [counted EXCEPT !.field_coverage = CountFields(@, entity_data.d)]
        verdict == validate_entity(entities_schema, entity_data.d, entity_type)
        judged == IF verdict.is_valid
                  THEN [covered EXCEPT !.valid = @ + 1]
                  ELSE StoreError([covered EXCEPT !.invalid = @ + 1],
                                  [line |-> line_no, entity_id |-> pk_value,
                                   errors |-> verdict.errors])
        Went(s, k, e) == [stats |-> s, seen_keys |-> k, exc |-> e]
    IN  IF line.kind = "blank" THEN Went(so_far, seen, "none")
        ELSE IF loaded.tag = "raise"
        THEN Went(StoreError([counted EXCEPT !.invalid = @ + 1],
                             [line |-> line_no, errors |-> <<Error("json", <<>>)>>]),
                  seen, "none")
        ELSE IF entity_data.t # "dict" THEN Went(counted, seen, "AttributeError")
        ELSE IF ~(has_key /\ Truthy(pk_value)) THEN Went(judged, seen, "none")
        ELSE IF ~Hashable(pk_value) THEN Went(judged, seen, "TypeError")
        ELSE IF InSeenKeys(pk_value, seen)
        THEN Went([judged EXCEPT !.primary_key_duplicates = Append(@, Duplicate(line_no, pk_value))],
                  seen, "none")
        ELSE Went(judged, seen \cup {pk_value}, "none")

\* the body of the for loop on one line, so_far being stats before it: the
\* stats and the seen keys after it, and the exception that leaves
\* validate_file, if any
HandleLine(entities_schema, entity_type, line, line_no, so_far, seen) ==
    LET entity_schema == Get(Get(entities_schema, "entities", EmptyDict), entity_type, EmptyDict)
        has_key == "primary_key" \in DOMAIN entity_schema /\ entity_schema.primary_key # <<>>
        loaded == json_loads(line)
        entity_data == loaded.value
        pk_value == IF has_key THEN Get(entity_data.d, entity_schema.primary_key, None) ELSE None
        counted == [so_far EXCEPT !.total = @ + 1]
        covered == [counted EXCEPT !.field_coverage = CountFields(@, entity_data.d)]
        verdict == validate_entity(entities_schema, entity_data.d, entity_type)
        judged == IF verdict.is_valid
                  THEN [covered EXCEPT !.valid = @ + 1]
                  ELSE StoreError([covered EXCEPT !.invalid = @ + 1],
                                  [line |-> line_no, entity_id |-> pk_value,
                                   errors |-> verdict.errors])
        Went(s, k, e) == [stats |-> s, seen_keys |-> k, exc |-> e]
    IN  IF line.kind = "blank" THEN Went(so_far, seen, "none")
        ELSE IF loaded.tag = "raise"
        THEN Went(StoreError([so_far EXCEPT !.invalid = @ + 1],
                             [line |-> line_no, errors |-> <<Error("json", <<>>)>>]),
                  seen, "none")
        ELSE IF entity_data.t # "dict" THEN Went(counted, seen, "AttributeError")
        ELSE IF ~(has_key /\ Truthy(pk_value)) THEN Went(judged, seen, "none")
        ELSE IF ~Hashable(pk_value) THEN Went(judged, seen, "TypeError")
        ELSE IF InSeenKeys(pk_value, seen)
        THEN Went([judged EXCEPT !.primary_key_duplicates = Append(@, Duplicate(line_no, pk_value))],
                  seen, "none")
        ELSE Went(judged, seen \cup {pk_value}, "none")

\* the lines a file is made of
LineSamples ==
    {BlankLine, MalformedLine,
     JsonLine(Dict(<<"d", "o", "c", "t", "i", "f", "y", "_", "i", "d">> :> Str(<<"d", "o", "c", "-", "4", "2">>))),
     JsonLine(Dict((<<"d", "o", "c", "t", "i", "f", "y", "_", "i", "d">> :> Str(<<"d", "o", "c", "-", "4", "2">>)) @@ (<<"a", "v", "e", "r", "a", "g", "e", "_", "r", "a", "t", "i", "n", "g">> :> Decimal(55)))),
     JsonLine(Dict(<<"d", "o", "c", "t", "i", "f", "y", "_", "i", "d">> :> Str(<<"d", "o", "c", "-", "7">>))),
     JsonLine(Dict(<<"s", "l", "u", "g">> :> Str(<<"m", "y", "-", "p", "o", "s", "t">>))),
     JsonLine(Dict(<<"d", "o", "c", "t", "i", "f", "y", "_", "i", "d">> :> Int_(1))),
     JsonLine(Dict(<<"d", "o", "c", "t", "i", "f", "y", "_", "i", "d">> :> Float(1))),
     JsonLine(Dict(<<"d", "o", "c", "t", "i", "f", "y", "_", "i", "d">> :> List(<<Str(<<"a">>)>>))),
     JsonLine(List(<<Int_(1)>>))}

ScanEntityTypes == {"practitioner", "blog_post", "specialty"}

\* validate_file has opened the file
InitValidateFile ==
    /\ call \in [fn : {"validate_file"}, entity_type : ScanEntityTypes]
    /\ ret = NoReturn
    /\ NoExtraction
    /\ jsonl_lines \in UNION {[1..n -> LineSamples] : n \in 0..MaxLines}
    /\ line_num = 0
    /\ file_stats = NewFileStats
    /\ seen_keys = {}
    /\ scan = "scanning"

\* one turn of `for line_num, line in enumerate(f, 1)`
ScanLine ==
    /\ scan = "scanning"
    /\ line_num < Len(jsonl_lines)
    /\ \E went \in {HandleLine(ValidatorSchema, call.entity_type, jsonl_lines[line_num + 1],
                              line_num + 1, file_stats, seen_keys)} :
          /\ line_num' = line_num + 1
          /\ file_stats' = went.stats
          /\ seen_keys' = went.seen_keys
          /\ scan' = IF went.exc = "none" THEN "scanning" ELSE "raised"
          /\ ret' = IF went.exc = "none" THEN ret ELSE Raise(went.exc)
    /\ UNCHANGED <<call, jsonl_lines, extractVars>>

\* the file is exhausted: return stats
EndScan ==
    /\ scan = "scanning"
    /\ line_num = Len(jsonl_lines)
    /\ scan' = "returned"
    /\ ret' = Return(file_stats)
    /\ UNCHANGED <<call, jsonl_lines, line_num, file_stats, seen_keys, extractVars>>

NextValidateFile == ScanLine \/ EndScan

SpecValidateFile == InitValidateFile /\ [][NextValidateFile]_vars

\* the primary key the scan looks for, <<>> when the entity type has none
ScanPrimaryKey ==
    LET entities == ValidatorSchema.entities
    IN  IF call.entity_type \in DOMAIN entities
           /\ "primary_key" \in DOMAIN entities[call.entity_type]
        THEN entities[call.entity_type].primary_key
        ELSE <<>>

\* line i holds a record with a non-empty primary key
Keyed(i) ==
    /\ jsonl_lines[i].kind = "json"
    /\ jsonl_lines[i].value.t = "dict"
    /\ ScanPrimaryKey \in DOMAIN jsonl_lines[i].value.d
    /\ Truthy(jsonl_lines[i].value.d[ScanPrimaryKey])

KeyOf(i) == jsonl_lines[i].value.d[ScanPrimaryKey]

\* the lines the scan has gone through to the end of the loop body
LinesHandled == IF scan = "raised" THEN line_num - 1 ELSE line_num

\* line i repeats the key of an earlier record
Repeats(i) == Keyed(i) /\ \E j \in 1..(i - 1) : Keyed(j) /\ PyEq(KeyOf(i), KeyOf(j))

\* the duplicates of lines 1..n, in line order
RECURSIVE RepeatsUpTo(_)
RepeatsUpTo(n) ==
    IF n = 0 THEN <<>>
    ELSE RepeatsUpTo(n - 1)
         \o (IF Repeats(n) THEN <<[line |-> n, key |-> KeyOf(n)]>> ELSE <<>>)

\* C15: during the scan of one file a record is appended to
\* primary_key_duplicates exactly when its non-empty primary key equals the
\* key of an earlier record, with its 1-based line number and its key; the
\* first record carrying a key is never flagged, and the set of seen keys is
\* never cleared.
C15_DuplicatesAreRepeats ==
    /\ [](call.fn = "validate_file" =>
            file_stats.primary_key_duplicates = RepeatsUpTo(LinesHandled))
    /\ [][seen_keys \subseteq seen_keys']_vars

\* doc-42 on line 1, a blank line, doc-42 again on line 3: the scan returned
\* with line 3 as the one duplicate
C15_Witness ==
    /\ call.fn = "validate_file"
    /\ scan = "returned"
    /\ Len(jsonl_lines) = 3
    /\ jsonl_lines[2] = BlankLine
    /\ Keyed(1) /\ Keyed(3)
    /\ file_stats.primary_key_duplicates = <<[line |-> 3, key |-> Str(<<"d", "o", "c", "-", "4", "2">>)]>>
    /\ seen_keys = {Str(<<"d", "o", "c", "-", "4", "2">>)}

\* C16: a line that is not a well-formed entity record is counted as invalid
\* and recorded with its line number, and the scan goes on: no line content
\* makes validate_file stop before the end of the file.
C16_ScanReachesEnd ==
    call.fn = "validate_file" =>
        /\ scan # "raised"
        /\ scan = "returned" =>
              /\ line_num = Len(jsonl_lines)
              /\ \A i \in 1..Len(jsonl_lines) :
                    jsonl_lines[i] = MalformedLine =>
                        \E k \in 1..Len(file_stats.errors) : file_stats.errors[k].line = i


----------------------------------------------------------------------------
(* Further properties of process_directory.                                *)

\* the variant process_directory is to keep for the i-th relative path
PreferredVariant(i) ==
    IF Pages[mirror[i]].rendered # <<>> THEN <<"r", "e", "n", "d", "e", "r", "e", "d">> ELSE <<"r", "a", "w">>

\* C17: for each relative path present under the raw or the rendered
\* directory, process_directory processes exactly one file: the rendered
\* variant when both exist, otherwise the only one that exists.
C17_OneFilePerPath ==
    pc \in {"loop", "done"} =>
        /\ Len(html_files) = Len(mirror)
        /\ \A i \in 1..Len(mirror) :
              \E k \in 1..Len(html_files) :
                  /\ html_files[k].rel = i
                  /\ \A l \in 1..Len(html_files) : html_files[l].rel = i => l = k
                  /\ html_files[k].variant = PreferredVariant(i)
                  /\ html_files[k].path = HtmlPath(PreferredVariant(i), RelPath(mirror, i))
        /\ pos \in 1..(Len(html_files) + 1)
        /\ pc = "done" => pos = Len(html_files) + 1

\* a run has ended over a page captured both ways, one captured rendered
\* only and one captured raw only
C17_Witness ==
    /\ pc = "done"
    /\ \E i, j, k \in 1..Len(mirror) :
          /\ Pages[mirror[i]].raw # <<>> /\ Pages[mirror[i]].rendered # <<>>
          /\ Pages[mirror[j]].raw = <<>>
          /\ Pages[mirror[k]].rendered = <<>>
          /\ \E a, b, c \in 1..Len(html_files) :
                /\ html_files[a].rel = i /\ html_files[a].variant = <<"r", "e", "n", "d", "e", "r", "e", "d">>
                /\ html_files[b].rel = j /\ html_files[b].variant = <<"r", "e", "n", "d", "e", "r", "e", "d">>
                /\ html_files[c].rel = k /\ html_files[c].variant = <<"r", "a", "w">>

\* the records written to review.jsonl so far
Reviews == IF "review" \in DOMAIN entity_files THEN entity_files["review"] ELSE <<>>

\* the document is a practitioner or a clinic whose entity has an identifier
ReviewedEntity(result) ==
    /\ Extracted(result)
    /\ result.out.value.page_type \in {"practitioner", "clinic"}
    /\ Truthy(Get(result.out.value.entity, "doctify_id", None))

\* C18: review records are produced and written to the review partition only
\* for documents of page type practitioner or clinic whose entity has a
\* non-empty primary identifier; none is ever written for a document of
\* another page type or for one whose identifier is empty.
C18_ReviewsOnlyWithIdentifier ==
    /\ [][Iteration =>
            \A result \in {Processed[html_files[pos]]} :
                ((Extracted(result) /\ result.out.value.reviews # <<>>) \/ Reviews' # Reviews)
                    => ReviewedEntity(result)]_vars
    /\ [](\A i \in 1..Len(Reviews) :
              /\ Reviews[i]["reviewed_entity_type"] \in {Name("practitioner"), Name("clinic")}
              /\ Truthy(Reviews[i]["reviewed_entity_id"]))

\* a run has ended over a practitioner with an identifier, a practitioner
\* without one and a case study, each with review containers: the reviews
\* written are those of the first
C18_Witness ==
    /\ pc = "done"
    /\ format = "jsonl"
    /\ {html_files[k].soup : k \in 1..Len(html_files)}
         = {PractitionerSoup, PractitionerNoIdSoup, CaseStudySoup}
    /\ stats.processed = 3
    /\ Len(Reviews) = 2
    /\ \A i \in 1..2 : Reviews[i]["reviewed_entity_type"] = Name("practitioner")

\* detect_page_type finds no page type for the file
Undetected(file) ==
    /\ file.readable
    /\ \A url \in {UrlOf(file)} :
          /\ url.tag = "return"
          /\ \A page_type \in {detect_page_type(RunSchema, url.value.s, file.soup)} :
                page_type.tag = "return" /\ ~Truthy(page_type.value)

\* C20: a document for which detect_page_type finds no page type is counted
\* as skipped and nothing else changes for it: no entity or review line is
\* written, no slug is recorded, the collision counter and the selector-hit
\* counters are unchanged.
C20_UndetectedIsSkipped ==
    [][(Iteration /\ Undetected(html_files[pos])) =>
            /\ stats' = [stats EXCEPT !.skipped = @ + 1]
            /\ UNCHANGED <<entity_files, seen_slugs, selector_hits>>]_vars

\* a run has ended over documents of no page type, after one that was
\* written: all of the former were skipped
C20_Witness ==
    /\ pc = "done"
    /\ format = "jsonl"
    /\ Len(html_files) = 3
    /\ \E k \in 1..3 :
          /\ html_files[k].soup = BlogPlainSoup
          /\ \A l \in (1..3) \ {k} : Undetected(html_files[l])
    /\ stats.skipped = 2 /\ stats.processed = 1
    /\ Len(BlogPosts) = 1


----------------------------------------------------------------------------
(* extract_reviews applied to documents of up to MaxReviews review         *)
(* containers.                                                             *)

MaxReviews == 3

\* a container whose .id element holds only white space
ReviewBlankId ==
    [text |-> <<" ", "3">>, attrs |-> EmptyDict,
     inner |-> Soup((".id" :> <<Elem(<<" ">>, EmptyDict)>>)
                    @@ (".rating" :> <<Elem(<<"3">>, EmptyDict)>>), <<>>)]

ReviewThree ==
    [text |-> <<"r", "3", " ", "2">>, attrs |-> EmptyDict,
     inner |-> Soup((".id" :> <<Elem(<<"r", "3">>, EmptyDict)>>)
                    @@ (".rating" :> <<Elem(<<"2">>, EmptyDict)>>), <<>>)]

ReviewSamples == {ReviewOne, ReviewTwo, ReviewBlankId, ReviewThree}

\* a schema whose reviews declare neither a container nor a review_id
NoReviewIdSchema ==
    "review" :> << Field("rating", [selectors |-> <<StrSel(".rating")>>, type |-> "integer"]) >>

InitReviews ==
    /\ call \in [fn : {"extract_reviews"},
                 selectors_schema : {RunSchema, NoReviewIdSchema},
                 soup : {Soup("div.review" :> containers, <<>>) :
                            containers \in UNION {[1..n -> ReviewSamples] : n \in 0..MaxReviews}},
                 entity_id : {Str(<<"7">>), Str(<<"d", "o", "c", "-", "4", "2">>)},
                 entity_type : {"practitioner", "clinic"}]
    /\ ret = NoReturn
    /\ NoRun

CallExtractReviews ==
    /\ call.fn = "extract_reviews"
    /\ ret = NoReturn
    /\ ret' = Return(extract_reviews(call.selectors_schema, call.soup, call.entity_id,
                                     call.entity_type).reviews)
    /\ UNCHANGED <<call, runVars>>

NextReviews == CallExtractReviews

SpecReviews == InitReviews /\ [][NextReviews]_vars

\* the containers matched in the document of the call
MatchedContainers == call.soup.select["div.review"]

\* what the review_id field resolves to in the i-th container, None when the
\* schema declares no such field
ResolvedId(i) ==
    LET declared == SelectSeq(Get(call.selectors_schema, "review", <<>>),
                              LAMBDA f : f.name = "review_id")
        got == extract_field(MatchedContainers[i].inner, declared[1].config, <<>>)
    IN  IF declared = <<>> THEN None
        ELSE IF got.out.tag = "return" THEN got.out.value
        ELSE Get(declared[1].config, "fallback", None)

\* the reviews whose review_id is generated
Synthesized == {i \in 1..Len(MatchedContainers) : ~Truthy(ResolvedId(i))}

\* C19: every review returned by extract_reviews has a non-empty review_id:
\* the resolved one when the review_id field resolved to a value, otherwise
\* {entity_id}_review_{idx}, idx being the position, from 0, of the review's
\* container among the matched containers; the generated ids of one document
\* are pairwise distinct.
C19_ReviewIds ==
    (call.fn = "extract_reviews" /\ ret # NoReturn) =>
        /\ Len(ret.value) = Len(MatchedContainers)
        /\ \A i \in 1..Len(ret.value) :
              /\ Truthy(ret.value[i]["review_id"])
              /\ ret.value[i]["review_id"]
                   = (IF i \in Synthesized
                      THEN Str(call.entity_id.s \o <<"_", "r", "e", "v", "i", "e", "w", "_">> \o NatToDigits(i - 1))
                      ELSE ResolvedId(i))
        /\ \A i, j \in Synthesized :
              i # j => ret.value[i]["review_id"] # ret.value[j]["review_id"]

\* a container without an id, one with the id r1 and one with a blank id:
\* the first and the third got 7_review_0 and 7_review_2
C19_Witness ==
    /\ call.fn = "extract_reviews" /\ ret # NoReturn
    /\ call.selectors_schema = RunSchema
    /\ MatchedContainers = <<ReviewTwo, ReviewOne, ReviewBlankId>>
    /\ [i \in 1..3 |-> ret.value[i]["review_id"]]
         = <<Str(<<"7", "_", "r", "e", "v", "i", "e", "w", "_", "0">>), Str(<<"r", "1">>), Str(<<"7", "_", "r", "e", "v", "i", "e", "w", "_", "2">>)>>


----------------------------------------------------------------------------
(* The channels of detect_page_type.                                       *)

\* the declared page types whose URL pattern matches the URL of the call
UrlMatched == {i \in 1..Len(call.detection) : UrlChannel(call.detection[i].rules, call.url)}

\* C21 (as claimed): when the URL pattern of some declared page type matches
\* the URL, detect_page_type returns a page type whose URL pattern matches.
C21_UrlChannelFirst ==
    (call.fn = "detect_page_type" /\ ret # NoReturn /\ UrlMatched # {}) =>
        \E i \in UrlMatched : ret = Return(Name(call.detection[i].page_type))


----------------------------------------------------------------------------
(* Selector results that are found but falsy.                              *)

\* the declared selectors whose own result is truthy
YieldingTruthy == {i \in 1..Len(call.field_config.selectors) : Truthy(OwnValue(i))}

\* C22 (as claimed): a selector whose result is falsy does not win: the
\* result of extract_field is that of the first declared selector with a
\* truthy result, and the fallback of the field when there is none.
C22_FalsyIsNotFound ==
    (call.fn = "extract_field" /\ ret # NoReturn) =>
        IF YieldingTruthy = {}
        THEN /\ ret.out = Return(Get(call.field_config, "fallback", None))
             /\ ret.hit = <<>>
        ELSE LET first == CHOOSE i \in YieldingTruthy : \A j \in YieldingTruthy : i <= j
             IN  /\ ret.out = Finished(OwnValue(first))
                 /\ ret.hit = <<OwnSelector(first)>>


----------------------------------------------------------------------------
(* _apply_pattern applied to bounded values and patterns.                  *)

MaxItems == 2

\* /p/\d+, /p/(\d*) and Dr
PlainPagePattern == [any |-> FALSE, lit |-> <<"/", "p", "/">>, digits |-> "plain"]
OptionalPagePattern == [any |-> FALSE, lit |-> <<"/", "p", "/">>, digits |-> "group*"]
TitlePattern == [any |-> FALSE, lit |-> <<"D", "r">>, digits |-> "none"]

Patterns == {PagePattern, PlainPagePattern, OptionalPagePattern, TitlePattern, DoctorPattern}

PatternStrings == {<<>>, <<"D", "r", " ", "X">>, <<"/", "p", "/">>, <<"/", "p", "/", "7">>,
                   <<"x", "/", "p", "/", "1", "2", "a">>, <<"a", "/", "d", "r", "/", "b">>}

PatternValues ==
    {Str(s) : s \in PatternStrings} \cup {Int_(0), Int_(7)}
    \cup {List(l) : l \in UNION {[1..k -> {Str(s) : s \in PatternStrings}] : k \in 0..MaxItems}}

InitApplyPattern ==
    /\ call \in [fn : {"_apply_pattern"}, value : PatternValues, pattern : Patterns]
    /\ ret = NoReturn
    /\ NoRun

CallApplyPattern ==
    /\ call.fn = "_apply_pattern"
    /\ ret = NoReturn
    /\ ret' = Return(_apply_pattern(call.value, call.pattern))
    /\ UNCHANGED <<call, runVars>>

NextApplyPattern == CallApplyPattern

SpecApplyPattern == InitApplyPattern /\ [][NextApplyPattern]_vars

\* what the claim gives for one string
ClaimedMatch(s, pattern) ==
    LET match == ReSearch(pattern, s)
    IN  IF ~match.matched THEN s
        ELSE IF pattern.digits \in {"group", "group*"} THEN match.groups[1]
        ELSE match.group0

\* C23 (as claimed): on a string _apply_pattern returns the first capture
\* group of the match when the pattern has groups, the whole match when it
\* has none, and the string itself when the pattern does not match; on a list
\* it returns a list without falsy element.
C23_ApplyPattern ==
    (call.fn = "_apply_pattern" /\ ret # NoReturn) =>
        /\ call.value.t = "str" => ret.value = Str(ClaimedMatch(call.value.s, call.pattern))
        /\ call.value.t = "list" =>
              /\ ret.value.t = "list"
              /\ \A i \in 1..Len(ret.value.l) : Truthy(ret.value.l[i])

\* C23, the part on strings alone
StringPart ==
    (call.fn = "_apply_pattern" /\ ret # NoReturn /\ call.value.t = "str") =>
        ret.value = Str(ClaimedMatch(call.value.s, call.pattern))


----------------------------------------------------------------------------
(* The collecting methods text_list and list.                              *)

\* the call is for a field with one selector, in string form, and no pattern
\* or type: the result of the call is what the selector yields
OneSelectorCall ==
    /\ call.fn = "extract_field" /\ ret # NoReturn
    /\ Len(call.field_config.selectors) = 1
    /\ call.field_config.selectors[1].form = "str"
    /\ "pattern" \notin DOMAIN call.field_config
    /\ "type" \notin DOMAIN call.field_config

\* the values of all the elements the selector matches, in document order,
\* the empty ones dropped: their texts, or their values of the attribute
Collected ==
    LET elements == Select(call.soup, call.field_config.selectors[1].selector)
    IN  {List(CleanTexts(elements))}
        \cup {List(AttributeValues(elements, call.field_config.attribute)) :
                 a \in {"attribute"} \cap DOMAIN call.field_config}

\* C24 (as claimed): with method text_list or list a selector yields the
\* values of all the elements it matches, with or without an attribute
\* (stated for the documents in which these values are not all empty).
C24_ListMethodsCollectAll ==
    (OneSelectorCall /\ Get(call.field_config, "method", "text") \in {"text_list", "list"}
                     /\ \A collected \in Collected : collected.l # <<>>) =>
        \E collected \in Collected : ret.out = Return(collected)

\* C24 for text_list without attribute, where it holds
TextListWithoutAttribute ==
    (OneSelectorCall /\ Get(call.field_config, "method", "text") = "text_list"
                     /\ "attribute" \notin DOMAIN call.field_config) =>
        ret.out = Return(List(CleanTexts(Select(call.soup, call.field_config.selectors[1].selector))))


----------------------------------------------------------------------------
(* The attribute of a selector and the attribute of the field.             *)

\* the query string of the one selector of the call
TheSelector == OwnSelector(1)

\* the call is for method attribute with a field-level attribute and one
\* selector that declares no attribute of its own and matches an element
FieldAttributeCall ==
    /\ call.fn = "extract_field" /\ ret # NoReturn
    /\ Get(call.field_config, "method", "text") = "attribute"
    /\ "attribute" \in DOMAIN call.field_config
    /\ "pattern" \notin DOMAIN call.field_config
    /\ "type" \notin DOMAIN call.field_config
    /\ Len(call.field_config.selectors) = 1
    /\ LET sc == call.field_config.selectors[1]
       IN  sc.form = "dict" => DOMAIN sc.cfg = {"selector"}
    /\ Select(call.soup, TheSelector) # <<>>

\* C25 (as claimed): a selector without attribute of its own, in string or
\* in mapping form, is evaluated with the attribute of the field: method
\* attribute returns that attribute's value from the first matching element.
C25_FieldAttributeIsDefault ==
    FieldAttributeCall =>
        LET element == Select(call.soup, TheSelector)[1]
            attribute == call.field_config.attribute
        IN  attribute \in DOMAIN element.attrs /\ Truthy(element.attrs[attribute])
                => ret.out = Return(element.attrs[attribute])

\* C25 for the selectors in string form, where it holds
StringFormAttribute ==
    (FieldAttributeCall /\ call.field_config.selectors[1].form = "str") =>
        LET element == Select(call.soup, TheSelector)[1]
            attribute == call.field_config.attribute
        IN  attribute \in DOMAIN element.attrs /\ Truthy(element.attrs[attribute])
                => ret.out = Return(element.attrs[attribute])


----------------------------------------------------------------------------
(* selector_hits.                                                          *)

SpecialMethods == {"from_url", "canonical_url", "json_ld"}

\* extract_field with a special method, on documents that carry a canonical
\* link and a JSON-LD script next to the elements the selectors match
SpecialConfigs ==
    {[method |-> method, selectors |-> sels] @@ p @@ f :
        method \in SpecialMethods,
        sels \in {<<>>, <<StrSel("a.link")>>,
                  <<DictSel([selector |-> "a.link", attribute |-> "href"]), StrSel("h1.name")>>},
        p \in {EmptyDict, [pattern |-> PagePattern, group |-> 1],
               [schema_types |-> {"Physician"}]},
        f \in {EmptyDict, [fallback |-> Str(<<"N", "/", "A">>)]}}

PhysicianScript == [text |-> <<>>, attrs |-> EmptyDict,
                    json |-> [k |-> "dict", d |-> [name |-> "X"] @@ ("@type" :> "Physician")]]

SpecialSoups ==
    {[select |-> ("h1.name" :> <<NameElement>>) @@ ("a.link" :> l)
                 @@ (CanonicalSelector :> c) @@ (JsonLdSelector :> j),
      body |-> <<>>] :
        l \in {<<>>, <<NameElement>>},
        c \in {<<>>, <<[text |-> <<>>, attrs |-> [href |-> Str(<<"/", "p", "/", "7">>)]]>>},
        j \in {<<>>, <<PhysicianScript>>}}

InitSpecial ==
    /\ call \in [fn : {"extract_field"}, soup : SpecialSoups, field_config : SpecialConfigs,
                 url : {<<"x", "/", "p", "/", "1", "2">>, <<"x", "/", "d", "r">>}]
    /\ ret = NoReturn
    /\ NoRun

\* extract_field(soup, field_config, url), as extract_entity calls it
CallFieldWithUrl ==
    /\ call.fn = "extract_field"
    /\ "url" \in DOMAIN call
    /\ ret = NoReturn
    /\ ret' = extract_field(call.soup, call.field_config, call.url)
    /\ UNCHANGED <<call, runVars>>

\* what the i-th declared selector of a field produces by itself
SelectorAlone(soup, field_config, i) ==
    LET sc == field_config.selectors[i]
        method == Get(field_config, "method", "text")
    IN  IF sc.form = "dict"
        THEN IF Get(sc.cfg, "selector", "") = "" THEN None
             ELSE SelectorValue(soup, sc.cfg.selector, Get(sc.cfg, "method", method),
                                Get(sc.cfg, "attribute", ""), None)
        ELSE SelectorValue(soup, sc.selector, method, Get(field_config, "attribute", ""), None)

\* the field is resolved by one of its selectors
Resolves(soup, field_config) ==
    /\ Get(field_config, "method", "text") \notin SpecialMethods
    /\ \E i \in 1..Len(Get(field_config, "selectors", <<>>)) :
           GotValue(SelectorAlone(soup, field_config, i))

\* the number of the fields that are resolved by a selector
Resolved(fields, reserved, soup) ==
    Cardinality({i \in 1..Len(fields) :
                    fields[i].name \notin reserved /\ Resolves(soup, fields[i].config)})

RECURSIVE SumOver(_, _)
\* the sum of f[i] for i in 1..n
SumOver(f, n) == IF n = 0 THEN 0 ELSE f[n] + SumOver(f, n - 1)

\* the successful selector resolutions while one file is processed: those of
\* the fields of the entity and of the fields of each of its reviews
ResolutionsIn(file) ==
    LET result == Processed[file]
        value == result.out.value
        review_config == Get(RunSchema, "review", <<>>)
        containers == Select(file.soup, Get(ReviewContainer(review_config), "selector", "div.review"))
    IN  IF ~Extracted(result) THEN 0
        ELSE Resolved(Get(RunSchema, value.page_type, <<>>), {"container", "structured_data"},
                      file.soup)
             + SumOver([i \in 1..Len(value.reviews) |->
                           Resolved(review_config, {"container"}, containers[i].inner)],
                       Len(value.reviews))

Resolutions == <<>> @@ [file \in SelectableFiles |-> ResolutionsIn(file)]

\* the sum of all the hit counters
HitsTotal ==
    LET keys == DOMAIN selector_hits
        order == CHOOSE o \in [1..Cardinality(keys) -> keys] :
                     \A k \in keys : \E i \in 1..Cardinality(keys) : o[i] = k
    IN  SumOver([i \in 1..Cardinality(keys) |-> selector_hits[order[i]]], Cardinality(keys))

\* the files the loop has been through
FilesDone == IF pc \in {"loop", "done"} THEN pos - 1 ELSE 0

NextHits == NextField \/ CallFieldWithUrl \/ Next

\* the calls of extract_field and the runs of process_directory
SpecHits == (InitField \/ InitSpecial \/ Init) /\ [][NextHits]_vars

\* C26: a call of extract_field counts one hit, under the key of the winning
\* selector, when a selector yields a value, and none when no selector yields
\* a value or the method is from_url, canonical_url or json_ld; in a run the
\* hit counters add up to the number of successful selector resolutions.
C26_SelectorHits ==
    /\ (call.fn = "extract_field" /\ ret # NoReturn) =>
          IF Get(call.field_config, "method", "text") \in SpecialMethods THEN ret.hit = <<>>
          ELSE IF Yielding = {} THEN ret.hit = <<>>
          ELSE ret.hit = <<OwnSelector(CHOOSE i \in Yielding : \A j \in Yielding : i <= j)>>
    /\ call.fn = "process_directory" =>
          HitsTotal = SumOver([k \in 1..FilesDone |-> Resolutions[html_files[k]]], FilesDone)

\* a run over one practitioner page is over: doctify_id came from the URL
\* without a hit, h1 gave the name, and of the two reviews one has no
\* element for its review_id
C26_Witness ==
    /\ call.fn = "process_directory" /\ pc = "done"
    /\ Len(html_files) = 1
    /\ html_files[1].soup = PractitionerSoup
    /\ selector_hits = ("h1" :> 1) @@ (".id" :> 1) @@ (".rating" :> 2)
    /\ HitsTotal = 4


----------------------------------------------------------------------------
(* extract_entity applied to bounded field declarations and documents.     *)

MaxFields == 3

\* /p/(\d+) has one group: group 2 is an IndexError
IdFromUrl(group) == [method |-> "from_url", pattern |-> PagePattern, group |-> group]

EntityFieldPool == {
    Field("doctify_id", IdFromUrl(1)),
    Field("doctify_id", IdFromUrl(2) @@ [fallback |-> Str(<<"N", "/", "A">>)]),
    Field("doctify_id", IdFromUrl(2)),
    Field("title", [selectors |-> <<StrSel("h1.name")>>]),
    Field("rating", [selectors |-> <<StrSel(".rating")>>, type |-> "integer"]),
    Field("rating", [selectors |-> <<StrSel(".rating")>>, type |-> "integer",
                     fallback |-> Int_(0)]),
    Field("schema", [method |-> "json_ld", schema_types |-> {"Physician"}]),
    Field("structured_data", [method |-> "json_ld", schema_types |-> {"Physician"}]),
    Field("container", [selector |-> "div.review"]) }

\* the declarations: up to MaxFields fields with distinct names
EntityDeclarations ==
    UNION {{d \in [1..k -> EntityFieldPool] :
               \A i, j \in 1..k : d[i].name = d[j].name => i = j} : k \in 0..MaxFields}

RatingElement(text) == [text |-> text, attrs |-> EmptyDict]

\* a rating of "inf" is an OverflowError of int(float(value)); a script
\* element without string is a TypeError of json.loads
EntitySoups ==
    {[select |-> ("h1.name" :> <<NameElement>>) @@ (".rating" :> r) @@ (JsonLdSelector :> j),
      body |-> <<>>] :
        r \in {<<>>, <<RatingElement(<<"4">>)>>, <<RatingElement(<<"i", "n", "f">>)>>},
        j \in {<<>>, <<PhysicianScript>>, <<[text |-> <<>>, attrs |-> EmptyDict]>>}}

EntityPath == <<"m", "i", "r", "r", "o", "r", "/", "r", "a", "w", "/", "a">>

InitExtractEntity ==
    /\ call \in [fn : {"extract_entity"}, fields : EntityDeclarations,
                 page_type : {"practitioner", "blog_post"}, soup : EntitySoups,
                 url : {<<"x", "/", "p", "/", "1", "2">>}]
    /\ ret = NoReturn
    /\ NoRun

CallExtractEntity ==
    /\ call.fn = "extract_entity"
    /\ ret = NoReturn
    /\ ret' = Return(extract_entity((call.page_type :> call.fields), call.page_type,
                                    call.soup, call.url, EntityPath).data)
    /\ UNCHANGED <<call, runVars>>

NextExtractEntity == CallExtractEntity

SpecExtractEntity == InitExtractEntity /\ [][NextExtractEntity]_vars

\* the declared fields that are not reserved keys
Declared == {i \in 1..Len(call.fields) : call.fields[i].name \notin {"container", "structured_data"}}

\* extract_field on the i-th declared field, by itself
FieldAlone(i) == extract_field(call.soup, call.fields[i].config, call.url).out

\* C27: the entity extract_entity returns has a key for every declared field
\* that is not a reserved key, extracted_at and source_file (and slug for a
\* blog post) and no other; a field whose resolution raises holds its
\* configured fallback, every other field holds what extract_field returns
\* for it.
C27_FieldFailureIsIsolated ==
    (call.fn = "extract_entity" /\ ret # NoReturn) =>
        /\ ret.tag = "return"
        /\ DOMAIN ret.value =
              {call.fields[i].name : i \in Declared} \cup {"extracted_at", "source_file"}
              \cup (IF call.page_type = "blog_post" THEN {"slug"} ELSE {})
        /\ ret.value["source_file"] = Str(EntityPath)
        /\ \A i \in Declared :
              ret.value[call.fields[i].name] =
                 IF FieldAlone(i).tag = "raise"
                 THEN Get(call.fields[i].config, "fallback", None)
                 ELSE FieldAlone(i).value

\* of three declared fields the first raised an IndexError and holds its
\* fallback, the second an OverflowError and holds None, the third holds its
\* value
C27_Witness ==
    /\ call.fn = "extract_entity" /\ ret # NoReturn
    /\ Len(call.fields) = 3
    /\ FieldAlone(1) = Raise("IndexError")
    /\ FieldAlone(2) = Raise("OverflowError")
    /\ ret.value["doctify_id"] = Str(<<"N", "/", "A">>)
    /\ ret.value["rating"] = None
    /\ ret.value["title"] = Str(<<"D", "r", " ", "X">>)


----------------------------------------------------------------------------
(* _clean_text applied to bounded texts.                                   *)

MaxText == 4

TextChars == {"a", " ", "\n", "zwsp"}

InitCleanText ==
    /\ call \in [fn : {"_clean_text"},
                 text : UNION {[1..n -> TextChars] : n \in 0..MaxText}]
    /\ ret = NoReturn
    /\ NoRun

CallCleanText ==
    /\ call.fn = "_clean_text"
    /\ ret = NoReturn
    /\ ret' = Return(Str(_clean_text(call.text)))
    /\ UNCHANGED <<call, runVars>>

NextCleanText == CallCleanText

SpecCleanText == InitCleanText /\ [][NextCleanText]_vars

\* no whitespace at either end, every whitespace run a single space, no
\* zero-width character
Normalized(s) ==
    /\ s # <<>> => ~IsSpace(s[1]) /\ ~IsSpace(s[Len(s)])
    /\ \A i \in 1..Len(s) : IsSpace(s[i]) => s[i] = " " /\ (i < Len(s) => ~IsSpace(s[i + 1]))
    /\ \A i \in 1..Len(s) : s[i] \notin ZeroWidth

\* C28 (as claimed): the text _clean_text returns is trimmed, has its
\* whitespace runs collapsed to single spaces and no zero-width character,
\* and _clean_text maps it to itself.
C28_CleanTextNormalizes ==
    (call.fn = "_clean_text" /\ ret # NoReturn) =>
        /\ Normalized(ret.value.s)
        /\ _clean_text(ret.value.s) = ret.value.s

\* C28 on texts without zero-width characters, where it holds
WithoutZeroWidth ==
    (call.fn = "_clean_text" /\ ret # NoReturn
        /\ \A i \in 1..Len(call.text) : call.text[i] \notin ZeroWidth) =>
        /\ Normalized(ret.value.s)
        /\ _clean_text(ret.value.s) = ret.value.s


----------------------------------------------------------------------------
(* The counts by type and the lines written.                               *)

\* the lines written to the output file of an entity type
LinesWritten(entity_type) ==
    IF entity_type \in DOMAIN entity_files THEN Len(entity_files[entity_type]) ELSE 0

\* C29 (as claimed): when process_directory ends, by_type holds for every
\* entity type, review included, the number of lines written to the output
\* file of the type.
C29_CountsMatchLines ==
    (call.fn = "process_directory" /\ pc = "done") =>
        \A i \in 1..Len(EntityTypes) :
            Get(stats.by_type, EntityTypes[i], 0) = LinesWritten(EntityTypes[i])

\* C29 for the types other than review, where it holds
EntityCountsMatchLines ==
    (call.fn = "process_directory" /\ pc = "done") =>
        \A i \in 1..Len(EntityTypes) :
            EntityTypes[i] # "review" =>
                Get(stats.by_type, EntityTypes[i], 0) = LinesWritten(EntityTypes[i])


----------------------------------------------------------------------------
(* The counters of validate_file.                                          *)

\* the lines of the file that json.loads accepts, and those that are not blank
ParsedLines == {i \in 1..Len(jsonl_lines) : jsonl_lines[i].kind = "json"}
NonBlankLines == {i \in 1..Len(jsonl_lines) : jsonl_lines[i].kind # "blank"}

\* the step is the turn of the loop on a blank line
BlankTurn ==
    /\ scan = "scanning"
    /\ line_num < Len(jsonl_lines)
    /\ jsonl_lines[line_num + 1].kind = "blank"
    /\ line_num' = line_num + 1

\* C30: in the stats validate_file returns, total is the number of lines
\* that parsed as JSON and valid + invalid the number of lines that are not
\* blank; the turn of the loop on a blank line changes no part of stats.
C30_ScanCounters ==
    /\ [](scan = "returned" =>
            /\ ret.value.total = Cardinality(ParsedLines)
            /\ ret.value.valid + ret.value.invalid = Cardinality(NonBlankLines))
    /\ [][BlankTurn => file_stats' = file_stats /\ seen_keys' = seen_keys]_vars

\* a file of a blank line, a malformed line and a record has been scanned:
\* one line in total, two in valid + invalid
C30_Witness ==
    /\ scan = "returned"
    /\ Len(jsonl_lines) = 3
    /\ jsonl_lines[1] = BlankLine
    /\ jsonl_lines[2] = MalformedLine
    /\ jsonl_lines[3].kind = "json"
    /\ ret.value.total = 1
    /\ ret.value.invalid >= 1
    /\ ret.value.valid + ret.value.invalid = 2

=============================================================================
